---- MODULE Spec2Model ----
(***************************************************************************)
(* Workspace lifecycle orchestrator of the coding-agent template:          *)
(*   createSandbox            (src/lib/sandbox/types.ts)                   *)
(*   DaytonaClient            (src/lib/sandbox/daytona-client.ts)          *)
(*   runCommandInWorkspace    (src/lib/sandbox/commands.ts)                *)
(*   validateEnvironmentVariables (src/unnamed/part_006)                   *)
(* The remote provider (daytona.create / get / process.executeCommand) and *)
(* the caller's callbacks are the environment: their outcomes are chosen   *)
(* nondeterministically.                                                   *)
(***************************************************************************)
EXTENDS Integers, Sequences, FiniteSets, TLC

VARIABLES
    \* ---- createSandbox (one task attempt) ----
    pc,              \* position in createSandbox
    config,          \* the SandboxConfig of the attempt and the validated environment
    proc,            \* the process: calls so far, ids and names generated, the client singleton
    progressed,      \* the percentages onProgress was invoked with, in order
    logged,          \* the texts handed to logger.info / error / command
    issued,          \* the commands run through runCommandInWorkspace, in order
    peer,            \* a second createSandbox call running concurrently
    cancelRequested, \* what onCancellationCheck() returns when it is asked now
    cancelSeenAt,    \* the checkpoint at which onCancellationCheck() returned true
    logs,            \* const logs: string[]
    result,          \* the SandboxResult returned (keys present = fields set)
    exc,             \* the exception in flight inside createSandbox
    sandbox,         \* createWorkspace: the sandbox returned by daytona.create
    workspace,       \* the DaytonaWorkspace returned by createWorkspace
    branchName,      \* let branchName: string
    createCalls,     \* number of daytona.create invocations
    gwLast,          \* the code position of the last action issued to the gateway
    checked,         \* onCancellationCheck() was asked since that action
    wait,            \* waitForWorkspaceReady: its locals, the probes and sleeps made
    requested,       \* validateAndOptimizeResources: its argument requestedResources
    allocated,       \* validateAndOptimizeResources: the resources it returned
    pkgFound,        \* packageJsonCheck.success
    reqFound,        \* requirementsTxtCheck.success
    \* ---- DaytonaClient.executeCommand (one call) ----
    ecPc,            \* position in executeCommand
    ecCmd,           \* the command string of the call
    ecOptions,       \* the options of the call
    sent,            \* the strings handed to sandbox.process.executeCommand, in order
    attempt,         \* loop variable `attempt`
    maxRetries,      \* const maxRetries
    delay,           \* const delay of the sleep about to be taken
    sleeps,          \* the backoff sleeps taken by this call, in order (ms)
    delivered,       \* times the remote command ran and returned an exit code
    kinds,           \* the kinds of attempt outcome seen in this call
    lastThrown,      \* what the latest attempt threw, if it threw
    lastExit,        \* exit code of the last delivered run
    ecResult         \* the DaytonaCommandResult returned

orchVars == <<pc, config, proc, progressed, logged, issued, peer,
              cancelRequested, cancelSeenAt, logs, result, exc, sandbox,
              workspace, branchName, createCalls, gwLast, checked,
              wait, requested, allocated, pkgFound,
              reqFound>>
execVars == <<ecPc, ecCmd, ecOptions, sent, attempt, maxRetries, delay, sleeps, delivered, kinds,
              lastThrown, lastExit, ecResult>>
vars == <<pc, config, proc, progressed, logged, issued, peer,
          cancelRequested, cancelSeenAt, logs, result, exc, sandbox,
          workspace, branchName, createCalls, gwLast, checked,
          wait, requested, allocated, pkgFound,
          reqFound,
          ecPc, ecCmd, ecOptions, sent, attempt, maxRetries, delay, sleeps, delivered, kinds,
          lastThrown, lastExit, ecResult>>

----------------------------------------------------------------------------
(* Bounds of the model *)

\* largest value of options.retries a caller of executeCommand passes
MaxRetriesOpt == 4
\* number of 2-second poll intervals that fit in the readiness timeout
MaxPolls == 2
\* number of createSandbox calls one process makes
MaxInvocations == 2
\* largest number of minutes in a timeout option such as '5m'
MaxMinutes == 12
\* largest timeoutSeconds waitForWorkspaceReady is called with on its own
MaxTimeoutSeconds == 5
\* largest number of cores, GB of memory or GB of disk a request asks for
MaxResource == 11

(* Program constants *)

DefaultRetries == 3
BaseDelay == 1000
\* const pollInterval = 2000 // 2 seconds
PollInterval == 2000

----------------------------------------------------------------------------
(* Values *)

\* no value yet
NoResult == [pending |-> TRUE]

\* the process before its first createSandbox call
NoProc == [invocation |-> 1, ids |-> {}, names |-> {}, client |-> "null"]

\* no second createSandbox call is running
NoPeer == [pc |-> "none", workspace |-> NoResult, targets |-> {}, branchName |-> ""]

\* waitForWorkspaceReady is not running
NoWait == [timeoutSeconds |-> 0, elapsed |-> 0, probes |-> 0, at |-> "idle",
           last |-> "none", slept |-> <<>>]

\* exit codes a delivered command may return
ExitCodes == {0, 1, 2}

\* the exit codes tried for the commands createSandbox runs
ExitCodesInAttempt == {0, 1}

\* what a gateway call may throw: Error objects (by message) and a non-Error value
TransportMsgs == {"socket hang up"}
FatalMsgs == {"401 Unauthorized", "403 Forbidden", "Sandbox not found",
              "bash: syntax error near unexpected token", "Permission denied"}
Thrown == [isError : {TRUE}, message : TransportMsgs \cup FatalMsgs]
            \cup {[isError |-> FALSE, message |-> "<thrown value>"]}

\* the thrown values tried for the commands createSandbox runs
ThrownInAttempt ==
    {[isError |-> TRUE, message |-> "socket hang up"],
     [isError |-> TRUE, message |-> "Sandbox not found"]}

\* String.prototype.toLowerCase / includes on the messages above: the
\* lower-cased words of interest each message contains
LowerWords(msg) ==
    CASE msg = "401 Unauthorized" -> {"unauthorized"}
      [] msg = "403 Forbidden" -> {"forbidden"}
      [] msg = "Sandbox not found" -> {"not found"}
      [] msg = "bash: syntax error near unexpected token" -> {"syntax error"}
      [] msg = "Permission denied" -> {"permission denied"}
      [] OTHER -> {}

\* the provider's own class of a thrown value
ErrorClass(e) ==
    IF e.isError /\ e.message \in FatalMsgs THEN "fatal" ELSE "transport"

RECURSIVE Pow2(_)
Pow2(n) == IF n <= 0 THEN 1 ELSE 2 * Pow2(n - 1)

----------------------------------------------------------------------------
(* DaytonaClient.executeCommand *)

IsNonRetryableError_noNotFound(e) ==
    /\ e.isError
    /\ LowerWords(e.message) \cap {"unauthorized", "forbidden", "syntax error",
                                    "permission denied"} # {}

\* private isNonRetryableError(error)
IsNonRetryableError(e) ==
    /\ e.isError
    /\ LowerWords(e.message) \cap {"unauthorized", "forbidden", "not found",
                                    "syntax error", "permission denied"} # {}

\* const maxRetries = options?.retries || 3   (undefined and 0 are falsy);
\* an optional field is a sequence of length 0 (absent) or 1 (given)
MaxRetriesOf(options) ==
    IF Len(options.retries) = 0 THEN DefaultRetries
    ELSE IF options.retries[1] = 0 THEN DefaultRetries ELSE options.retries[1]

IsLastAttempt_offByOne(a, m) == a = m + 1

\* attempt === maxRetries
IsLastAttempt(a, m) == a = m

ReturnsResult_always(success, a, m) == TRUE

\* if (result.success || attempt === maxRetries) return result
ReturnsResult(success, a, m) == success \/ IsLastAttempt(a, m)

BackoffDelay_doubled(a) == BaseDelay * Pow2(a)

\* const delay = baseDelay * Math.pow(2, attempt - 1)
BackoffDelay(a) == BaseDelay * Pow2(a - 1)

DeliveredResult_optimistic(code) ==
    [success |-> TRUE, output |-> "<stdout>", exitCode |-> code]

\* the result object built from a delivered command's response
DeliveredResult(code) ==
    IF code = 0
    THEN [success |-> TRUE, output |-> "<stdout>", exitCode |-> 0]
    ELSE [success |-> FALSE, output |-> "<stdout>",
          error |-> "Command failed with exit code " \o ToString(code),
          exitCode |-> code]

\* the result object returned from the catch block
ThrownResult(e) ==
    [success |-> FALSE,
     error |-> IF e.isError THEN e.message ELSE "Unknown error",
     exitCode |-> 1]

\* the result after the loop ("This should never be reached")
ExhaustedResult ==
    [success |-> FALSE, error |-> "Maximum retries exceeded", exitCode |-> 1]

\* options is undefined: an optional field is a sequence of length 0
\* (absent) or 1 (given); env is the sequence of the object's entries
NoOptions == [retries |-> <<>>, env |-> <<>>, cwd |-> <<>>]

\* Object.entries(options.env).map(([key, value]) => `${key}="${value}"`)
\*   .join(' ')
RECURSIVE EnvVars(_)
EnvVars(env) ==
    IF Len(env) = 0 THEN ""
    ELSE env[1][1] \o "=\"" \o env[1][2] \o "\""
         \o (IF Len(env) = 1 THEN "" ELSE " " \o EnvVars(Tail(env)))

FinalCommand_cwdInside(command, options) ==
    LET withCwd == IF Len(options.cwd) = 1 /\ options.cwd[1] # ""
                   THEN "cd \"" \o options.cwd[1] \o "\" && " \o command
                   ELSE command
    IN  IF Len(options.env) > 0
        THEN EnvVars(options.env) \o " " \o withCwd
        ELSE withCwd

\* daytona-client.ts 213-226: let finalCommand = command; the env prefix when
\* options.env has entries; then the cd prefix when options.cwd is truthy
FinalCommand(command, options) ==
    LET withEnv == IF Len(options.env) > 0
                   THEN EnvVars(options.env) \o " " \o command
                   ELSE command
    IN  IF Len(options.cwd) = 1 /\ options.cwd[1] # ""
        THEN "cd \"" \o options.cwd[1] \o "\" && " \o withEnv
        ELSE withEnv

ExecIdle ==
    /\ ecPc = "idle" /\ ecCmd = "" /\ attempt = 0 /\ maxRetries = 0 /\ delay = 0
    /\ ecOptions = NoOptions /\ sent = <<>>
    /\ sleeps = <<>> /\ delivered = 0 /\ kinds = {} /\ lastThrown = NoResult /\ lastExit = 0
    /\ ecResult = NoResult

\* entry of executeCommand(workspaceId, command, options)
ExecEnter(cmd, options) ==
    /\ ecPc' = "loop"
    /\ ecCmd' = cmd
    /\ ecOptions' = options
    /\ sent' = <<>>
    /\ maxRetries' = MaxRetriesOf(options)
    /\ attempt' = 1
    /\ delay' = 0
    /\ sleeps' = <<>>
    /\ delivered' = 0
    /\ kinds' = {}
    /\ lastThrown' = NoResult
    /\ lastExit' = 0
    /\ ecResult' = NoResult

\* the caller has taken the result: the call's frame is gone
ExecLeave ==
    /\ ecPc' = "idle" /\ ecCmd' = "" /\ attempt' = 0 /\ maxRetries' = 0 /\ delay' = 0
    /\ ecOptions' = NoOptions /\ sent' = <<>>
    /\ sleeps' = <<>> /\ delivered' = 0 /\ kinds' = {} /\ lastThrown' = NoResult /\ lastExit' = 0
    /\ ecResult' = NoResult

ExecReturn(r) ==
    /\ ecPc' = "returned"
    /\ ecResult' = r
    /\ UNCHANGED <<attempt, delay, sleeps>>

ExecSleepNext ==
    /\ ecPc' = "sleep"
    /\ delay' = BackoffDelay(attempt)
    /\ UNCHANGED <<attempt, sleeps, ecResult>>

\* one iteration of the for loop up to its return or its backoff sleep:
\* daytona.get, sandbox.process.executeCommand, and the catch block
ExecAttempt ==
    /\ ecPc = "loop"
    /\ gwLast' = IF attempt <= maxRetries THEN pc ELSE gwLast
    /\ checked' = IF attempt <= maxRetries THEN FALSE ELSE checked
    /\ IF ~(attempt <= maxRetries)
       THEN /\ ExecReturn(ExhaustedResult)
            /\ UNCHANGED <<sent, delivered, kinds, lastThrown, lastExit>>
       ELSE \/ \E code \in IF pc = "caller" THEN ExitCodes ELSE ExitCodesInAttempt :
                 \* the command was delivered and ran
                 /\ delivered' = delivered + 1
                 /\ sent' = Append(sent, FinalCommand(ecCmd, ecOptions))
                 /\ lastExit' = code
                 /\ kinds' = kinds \cup {IF code = 0 THEN "exit0" ELSE "nonzero"}
                 /\ lastThrown' = NoResult
                 /\ IF ReturnsResult(code = 0, attempt, maxRetries)
                    THEN ExecReturn(DeliveredResult(code))
                    ELSE ExecSleepNext
            \/ \E e \in IF pc = "caller" THEN Thrown ELSE ThrownInAttempt :
                 \* daytona.get threw, or process.executeCommand threw after
                 \* it was handed the string (tried for the direct caller)
                 /\ \E handed \in IF pc = "caller" THEN BOOLEAN ELSE {FALSE} :
                       sent' = IF handed
                               THEN Append(sent, FinalCommand(ecCmd, ecOptions))
                               ELSE sent
                 /\ kinds' = kinds \cup {ErrorClass(e)}
                 /\ lastThrown' = e
                 /\ UNCHANGED <<delivered, lastExit>>
                 /\ IF IsLastAttempt(attempt, maxRetries) \/ IsNonRetryableError(e)
                    THEN ExecReturn(ThrownResult(e))
                    ELSE ExecSleepNext
    /\ UNCHANGED <<ecCmd, ecOptions, maxRetries>>
    /\ UNCHANGED <<pc, config, proc, progressed, logged, issued, peer,
                   cancelRequested, cancelSeenAt, logs, result, exc,
                   sandbox, workspace, branchName, createCalls,
                   wait, requested, allocated, pkgFound,
                   reqFound>>

\* await new Promise(resolve => setTimeout(resolve, delay)); then attempt++
ExecBackoff ==
    /\ ecPc = "sleep"
    /\ sleeps' = Append(sleeps, delay)
    /\ attempt' = attempt + 1
    /\ ecPc' = "loop"
    /\ UNCHANGED <<ecCmd, ecOptions, sent, maxRetries, delay, delivered, kinds, lastThrown, lastExit,
                   ecResult>>
    /\ UNCHANGED orchVars

----------------------------------------------------------------------------
(* A direct caller of executeCommand (the tests call client.executeCommand   *)
(* with and without a retries option)                                        *)

CallerRetries == {<<>>} \cup {<<n>> : n \in -1 .. MaxRetriesOpt}
CallerOptions == {[NoOptions EXCEPT !.retries = r] : r \in CallerRetries}

OrchIdle ==
    /\ pc = "caller"
    /\ config = [taskId |-> "t1"]
    /\ proc = NoProc
    /\ progressed = <<>>
    /\ logged = {}
    /\ issued = <<>>
    /\ peer = NoPeer
    /\ cancelRequested = FALSE
    /\ cancelSeenAt = "none"
    /\ logs = <<>>
    /\ result = NoResult
    /\ exc = NoResult
    /\ sandbox = NoResult
    /\ workspace = NoResult
    /\ branchName = ""
    /\ createCalls = 0
    /\ gwLast = "none"
    /\ checked = FALSE
    /\ wait = NoWait
    /\ requested = NoResult
    /\ allocated = NoResult
    /\ pkgFound = FALSE
    /\ reqFound = FALSE

CallExecuteCommand ==
    /\ pc = "caller"
    /\ ecPc = "idle"
    /\ \E o \in CallerOptions : ExecEnter("ls /workspace", o)
    /\ UNCHANGED orchVars

InitExec == OrchIdle /\ ExecIdle

NextExec == CallExecuteCommand \/ ExecAttempt \/ ExecBackoff

SpecExec == InitExec /\ [][NextExec]_vars

\* the env and cwd options the tests pass (Object.entries keeps insertion
\* order), and the empty ones
CallerEnvs == {<<>>, <<<<"CUSTOM_VAR", "custom-value">>>>,
               <<<<"CUSTOM_VAR", "custom-value">>, <<"NODE_ENV", "test">>>>}
CallerCwds == {<<>>, <<"">>, <<"/workspace">>}
CallerOptionsWithEnvCwd ==
    [retries : CallerRetries, env : CallerEnvs, cwd : CallerCwds]

\* client.executeCommand(workspace.id, 'echo $CUSTOM_VAR', { env, cwd, retries })
CallExecuteCommandWithOptions ==
    /\ pc = "caller"
    /\ ecPc = "idle"
    /\ \E o \in CallerOptionsWithEnvCwd : ExecEnter("echo $CUSTOM_VAR", o)
    /\ UNCHANGED orchVars

NextCompose == CallExecuteCommandWithOptions \/ ExecAttempt \/ ExecBackoff

SpecCompose == InitExec /\ [][NextCompose]_vars

\* the workspace ids the caller passes: one the provider knows, one it does not
WorkspaceIds == {"ws-1", "invalid-workspace-id"}

\* what this.daytona.get(workspaceId) does: it returns the sandbox of a known
\* id, or rejects (always so for an id the provider does not know)
GetOutcomes(workspaceId) ==
    (IF workspaceId = "ws-1" THEN {[returned |-> TRUE]} ELSE {})
        \cup {[returned |-> FALSE, thrown |-> e] : e \in Thrown}

\* what this.daytona.remove(sandbox) does
RemoveOutcomes ==
    {[returned |-> TRUE]} \cup {[returned |-> FALSE, thrown |-> e] : e \in Thrown}

\* the values the two methods return: null, and a boolean
Null == [isNull |-> TRUE]
Deleted(b) == [deleted |-> b]

GetWorkspace_noCatch ==
    /\ pc = "caller"
    /\ ecPc \in {"idle", "returned"}
    /\ gwLast' = "getWorkspace"
    /\ \E workspaceId \in WorkspaceIds : \E got \in GetOutcomes(workspaceId) :
         IF got.returned
         THEN /\ sandbox' = [id |-> workspaceId]
              /\ result' = [id |-> workspaceId, name |-> workspaceId,
                            status |-> "running", url |-> <<>>]
              /\ exc' = NoResult
              /\ pc' = "caller"
         ELSE /\ sandbox' = NoResult
              /\ exc' = got.thrown
              /\ pc' = "raised"
              /\ UNCHANGED result
    /\ UNCHANGED <<config, proc, progressed, logged, issued, peer,
                   cancelRequested, cancelSeenAt, logs,
                   workspace, branchName, createCalls, checked,
                   wait, requested, allocated, pkgFound,
                   reqFound>>
    /\ UNCHANGED execVars

\* getWorkspace(workspaceId): exc is the error its catch block caught
GetWorkspace ==
    /\ pc = "caller"
    /\ ecPc \in {"idle", "returned"}
    /\ gwLast' = "getWorkspace"
    /\ \E workspaceId \in WorkspaceIds : \E got \in GetOutcomes(workspaceId) :
         IF got.returned
         THEN /\ sandbox' = [id |-> workspaceId]
              /\ result' = [id |-> workspaceId, name |-> workspaceId,
                            status |-> "running", url |-> <<>>]
              /\ exc' = NoResult
         ELSE /\ sandbox' = NoResult
              /\ exc' = got.thrown
              /\ result' = Null
    /\ pc' = "caller"
    /\ UNCHANGED <<config, proc, progressed, logged, issued, peer,
                   cancelRequested, cancelSeenAt, logs,
                   workspace, branchName, createCalls, checked,
                   wait, requested, allocated, pkgFound,
                   reqFound>>
    /\ UNCHANGED execVars

\* deleteWorkspace(workspaceId): daytona.get, then daytona.remove
DeleteWorkspace ==
    /\ pc = "caller"
    /\ ecPc \in {"idle", "returned"}
    /\ gwLast' = "deleteWorkspace"
    /\ \E workspaceId \in WorkspaceIds : \E got \in GetOutcomes(workspaceId) :
       \E removed \in RemoveOutcomes :
         IF ~got.returned
         THEN /\ sandbox' = NoResult
              /\ exc' = got.thrown
              /\ result' = Deleted(FALSE)
         ELSE /\ sandbox' = [id |-> workspaceId]
              /\ IF removed.returned
                 THEN exc' = NoResult /\ result' = Deleted(TRUE)
                 ELSE exc' = removed.thrown /\ result' = Deleted(FALSE)
    /\ pc' = "caller"
    /\ UNCHANGED <<config, proc, progressed, logged, issued, peer,
                   cancelRequested, cancelSeenAt, logs,
                   workspace, branchName, createCalls, checked,
                   wait, requested, allocated, pkgFound,
                   reqFound>>
    /\ UNCHANGED execVars

NextAdapter == NextExec \/ GetWorkspace \/ DeleteWorkspace

SpecAdapter == InitExec /\ [][NextAdapter]_vars

----------------------------------------------------------------------------
(* Errors thrown inside createWorkspace and createSandbox *)

\* an Error object: its message, and the case-sensitive words of interest
\* that message.includes(...) finds in it
Err(msg, words) == [isError |-> TRUE, message |-> msg, words |-> words]

\* a thrown value that is not an Error
NonError == [isError |-> FALSE, message |-> "<thrown value>", words |-> {}]

\* what daytona.create may reject with
CreateThrown ==
    {Err("Total disk quota exceeded", {"quota"}),
     Err("Request timeout", {"timeout"}),
     Err("403 Forbidden", {"403", "Forbidden"}),
     Err("Internal Server Error", {}),
     NonError}

\* what the caller's onCancellationCheck / onProgress may reject with
CallbackThrown ==
    {Err("task lookup failed", {}),
     Err("database timeout", {"timeout"}),
     Err("", {}),
     NonError}

RECURSIVE Join(_, _)
\* Array.prototype.join
Join(parts, sep) ==
    IF Len(parts) = 0 THEN ""
    ELSE IF Len(parts) = 1 THEN parts[1]
    ELSE parts[1] \o sep \o Join(Tail(parts), sep)

----------------------------------------------------------------------------
(* config: validateEnvironmentVariables *)

EnvNames == {"DAYTONA_API_KEY", "DAYTONA_SERVER_URL", "ANTHROPIC_API_KEY",
             "CURSOR_API_KEY", "OPENAI_API_KEY", "GITHUB_TOKEN"}

ErrorIf(cond, msg) == IF cond THEN <<msg>> ELSE <<>>

\* validateEnvironmentVariables(selectedAgent): env is the set of the
\* variables of process.env that are set
ValidateEnvironmentVariables(selectedAgent, env) ==
    LET errors ==
            ErrorIf("DAYTONA_API_KEY" \notin env,
                    "DAYTONA_API_KEY is required for sandbox creation")
         \o ErrorIf("DAYTONA_SERVER_URL" \notin env,
                    "DAYTONA_SERVER_URL is required for sandbox creation")
         \o ErrorIf(selectedAgent = "claude" /\ "ANTHROPIC_API_KEY" \notin env,
                    "ANTHROPIC_API_KEY is required for Claude CLI")
         \o ErrorIf(selectedAgent = "cursor" /\ "CURSOR_API_KEY" \notin env,
                    "CURSOR_API_KEY is required for Cursor CLI")
         \o ErrorIf(selectedAgent = "codex" /\ "OPENAI_API_KEY" \notin env,
                    "OPENAI_API_KEY is required for Codex CLI")
         \o ErrorIf("GITHUB_TOKEN" \notin env,
                    "GITHUB_TOKEN is required for repository access")
    IN [valid |-> Len(errors) = 0, error |-> Join(errors, ", ")]

----------------------------------------------------------------------------
(* DaytonaClient.createWorkspace *)

\* value || fallback  for an optional number (absent and 0 are falsy)
OrDefault(opt, fallback) ==
    IF Len(opt) = 0 THEN fallback
    ELSE IF opt[1] = 0 THEN fallback ELSE opt[1]

ValidateAndOptimizeResources_noFloor(req) ==
    LET cpu0 == OrDefault(req.cpu, 1)
        mem0 == OrDefault(req.memory, 2)
        disk0 == OrDefault(req.disk, 5)
    IN [cpu |-> IF cpu0 > 4 THEN 4 ELSE cpu0,
        memory |-> IF mem0 > 8 THEN 8 ELSE mem0,
        disk |-> IF disk0 > 10 THEN 10 ELSE disk0]

ValidateAndOptimizeResources_stepDown(req) ==
    LET cpu0 == OrDefault(req.cpu, 1)
        mem0 == OrDefault(req.memory, 2)
        disk0 == OrDefault(req.disk, 5)
        cpu1 == IF cpu0 > 4 THEN cpu0 - 1 ELSE cpu0
        mem1 == IF mem0 > 8 THEN mem0 - 1 ELSE mem0
        disk1 == IF disk0 > 10 THEN disk0 - 1 ELSE disk0
    IN [cpu |-> IF cpu1 < 1 THEN 1 ELSE cpu1,
        memory |-> IF mem1 < 1 THEN 1 ELSE mem1,
        disk |-> IF disk1 < 3 THEN 3 ELSE disk1]

ValidateAndOptimizeResources_diskCap30(req) ==
    LET cpu0 == OrDefault(req.cpu, 1)
        mem0 == OrDefault(req.memory, 2)
        disk0 == OrDefault(req.disk, 5)
        cpu1 == IF cpu0 > 4 THEN 4 ELSE cpu0
        mem1 == IF mem0 > 8 THEN 8 ELSE mem0
        disk1 == IF disk0 > 30 THEN 30 ELSE disk0
    IN [cpu |-> IF cpu1 < 1 THEN 1 ELSE cpu1,
        memory |-> IF mem1 < 1 THEN 1 ELSE mem1,
        disk |-> IF disk1 < 3 THEN 3 ELSE disk1]

\* private validateAndOptimizeResources(requestedResources)
ValidateAndOptimizeResources(req) ==
    LET cpu0 == OrDefault(req.cpu, 1)
        mem0 == OrDefault(req.memory, 2)
        disk0 == OrDefault(req.disk, 5)
        cpu1 == IF cpu0 > 4 THEN 4 ELSE cpu0
        mem1 == IF mem0 > 8 THEN 8 ELSE mem0
        disk1 == IF disk0 > 10 THEN 10 ELSE disk0
    IN [cpu |-> IF cpu1 < 1 THEN 1 ELSE cpu1,
        memory |-> IF mem1 < 1 THEN 1 ELSE mem1,
        disk |-> IF disk1 < 3 THEN 3 ELSE disk1]

\* the options createSandbox passes carry no `resources`
NoResources == [cpu |-> <<>>, memory |-> <<>>, disk |-> <<>>]

\* options.timeout || 300 ; createSandbox passes daytonaConfig.timeout,
\* which is 5 * 60 when config.timeout is not given
CreateTimeout == 300

\* the catch block of createWorkspace: the Error it throws for the error caught
CreateWorkspaceError(e, resources) ==
    IF e.isError /\ e.words \cap {"quota", "limit"} # {}
    THEN Err("Resource quota exceeded. Try reducing CPU, memory, or disk allocation."
             \o " Current limits: CPU=" \o ToString(resources.cpu)
             \o ", Memory=" \o ToString(resources.memory)
             \o "GB, Disk=" \o ToString(resources.disk) \o "GB",
             {"quota", "limit"})
    ELSE IF e.isError /\ "timeout" \in e.words
    THEN Err("Workspace creation timed out after " \o ToString(CreateTimeout)
             \o " seconds. Try increasing timeout or reducing resource requirements.",
             {"timeout"})
    ELSE IF e.isError /\ e.words \cap {"403", "Forbidden"} # {}
    THEN Err("Access denied. Check your API key and permissions. Resource request: CPU="
             \o ToString(resources.cpu)
             \o ", Memory=" \o ToString(resources.memory)
             \o "GB, Disk=" \o ToString(resources.disk) \o "GB", {})
    ELSE Err("Failed to create sandbox: "
             \o (IF e.isError THEN e.message ELSE "Unknown error"),
             IF e.isError THEN e.words ELSE {})

\* the Error waitForWorkspaceReady throws when the timeout has elapsed
ReadinessError(id, timeoutSeconds) ==
    Err("Workspace " \o id \o " failed to become ready within "
        \o ToString(timeoutSeconds) \o " seconds", {})

----------------------------------------------------------------------------
(* createSandbox: values *)

AllEnv == {"DAYTONA_API_KEY", "DAYTONA_SERVER_URL", "ANTHROPIC_API_KEY",
           "GITHUB_TOKEN"}

\* the process environments tried
Envs == {AllEnv, AllEnv \ {"GITHUB_TOKEN"},
         AllEnv \ {"ANTHROPIC_API_KEY", "DAYTONA_SERVER_URL"}}

\* config.resources?.vcpus: absent, in range, above the provider's limit
Vcpus == {<<>>, <<3>>, <<8>>}

\* the SandboxConfig values tried; "" is an absent branch name, and
\* installDependencies is an optional boolean
Configs ==
    [taskId : {"t1"},
     selectedAgent : {"claude"},
     env : Envs,
     hasCancel : BOOLEAN,
     hasProgress : BOOLEAN,
     installDependencies : {<<>>, <<TRUE>>, <<FALSE>>},
     vcpus : Vcpus,
     existingBranchName : {"", "dev"},
     preDeterminedBranchName : {"", "feature/x"}]

\* ids daytona.create may give the new sandbox
SandboxIds == {"ws-1"}

InstallWanted_always == TRUE

\* config.installDependencies !== false
InstallWanted == config.installDependencies # <<FALSE>>

\* branchNameForEnv || 'main'
CloneBranch ==
    IF config.existingBranchName # "" THEN config.existingBranchName ELSE "main"

\* a string pushed to logs: the parts of its template literal, a plain
\* literal being one part
Literal(text) == <<text>>

\* String.prototype.includes on a log entry, for a value interpolated in it
Mentions(entry, value) == \E j \in 1 .. Len(entry) : entry[j] = value

\* return { success: false, cancelled: true, logs }
CancelledResult(l) == [success |-> FALSE, cancelled |-> TRUE, logs |-> l]

FailureResult_noFallback(e, l) ==
    [success |-> FALSE,
     error |-> IF e.isError THEN e.message ELSE "Unknown error occurred",
     logs |-> l]

\* the outer catch block: errorMessage and the result returned
FailureResult(e, l) ==
    LET errorMessage == IF e.isError THEN e.message ELSE "Unknown error occurred"
    IN [success |-> FALSE,
        error |-> IF errorMessage = "" THEN "Failed to create workspace"
                                       ELSE errorMessage,
        logs |-> l]

DomainOf_fallbackOnly(ws) == "workspace-" \o ws.id \o ".daytona.dev"

\* const domain = workspace.url || `workspace-${workspace.id}.daytona.dev`
DomainOf(ws) ==
    IF Len(ws.url) = 0 \/ ws.url[1] = ""
    THEN "workspace-" \o ws.id \o ".daytona.dev"
    ELSE ws.url[1]

SuccessResult_alsoCancelled(ws, branch, l) ==
    [success |-> TRUE, workspace |-> ws, domain |-> DomainOf(ws),
     branchName |-> branch, cancelled |-> FALSE, logs |-> l]

\* return { success: true, workspace, domain, branchName, logs }
SuccessResult(ws, branch, l) ==
    [success |-> TRUE, workspace |-> ws, domain |-> DomainOf(ws),
     branchName |-> branch, logs |-> l]

\* the code positions inside the inner try block (types.ts 184-208)
InnerTry == {"create", "ready", "clone", "clone_checkout", "created", "check2",
             "progress30"}

HandlerOf_noOuterCatch(at) ==
    IF at \in InnerTry THEN "catch_inner" ELSE "raised"

\* the catch block an exception thrown at a code position reaches
HandlerOf(at) ==
    IF at \in InnerTry THEN "catch_inner" ELSE "catch_outer"

Throw(at, e) ==
    /\ pc' = HandlerOf(at)
    /\ exc' = e

OrchInit ==
    /\ pc = "check1"
    /\ config \in Configs
    /\ proc = NoProc
    /\ progressed = <<>>
    /\ logged = {}
    /\ issued = <<>>
    /\ peer = NoPeer
    /\ cancelRequested = FALSE
    /\ cancelSeenAt = "none"
    /\ logs = <<>>
    /\ result = NoResult
    /\ exc = NoResult
    /\ sandbox = NoResult
    /\ workspace = NoResult
    /\ branchName = ""
    /\ createCalls = 0
    /\ gwLast = "none"
    /\ checked = FALSE
    /\ wait = NoWait
    /\ requested = NoResult
    /\ allocated = NoResult
    /\ pkgFound = FALSE
    /\ reqFound = FALSE

----------------------------------------------------------------------------
(* createSandbox: steps *)

CancellationCheck_noReturn(at, next) ==
    /\ pc = at
    /\ pc' = next
    /\ cancelSeenAt' = IF config.hasCancel /\ cancelRequested /\ cancelSeenAt = "none"
                       THEN at ELSE cancelSeenAt
    /\ checked' = (checked \/ config.hasCancel)
    /\ UNCHANGED <<config, proc, progressed, logged, issued, peer,
                   cancelRequested, logs, result, exc, sandbox, workspace,
                   branchName, createCalls, gwLast,
                   wait, requested, allocated, pkgFound, reqFound>>
    /\ UNCHANGED execVars

\* if (config.onCancellationCheck && (await config.onCancellationCheck()))
\*   return { success: false, cancelled: true, logs }
CancellationCheck(at, next) ==
    /\ pc = at
    /\ IF ~config.hasCancel
       THEN /\ pc' = next
            /\ UNCHANGED <<cancelSeenAt, result, exc, checked>>
       ELSE \/ /\ cancelRequested
               /\ cancelSeenAt' = at
               /\ checked' = TRUE
               /\ result' = CancelledResult(logs)
               /\ pc' = "done"
               /\ UNCHANGED exc
            \/ /\ ~cancelRequested
               /\ checked' = TRUE
               /\ pc' = next
               /\ UNCHANGED <<cancelSeenAt, result, exc>>
            \/ /\ \E e \in CallbackThrown : Throw(at, e)
               /\ UNCHANGED <<cancelSeenAt, result, checked>>
    /\ UNCHANGED <<config, proc, progressed, logged, issued, peer,
                   cancelRequested, logs, sandbox, workspace, branchName,
                   createCalls, gwLast, wait, requested, allocated, pkgFound, reqFound>>
    /\ UNCHANGED execVars

\* if (config.onProgress) await config.onProgress(percent, message)
ProgressReport(at, next, percent) ==
    /\ pc = at
    /\ IF ~config.hasProgress
       THEN pc' = next /\ UNCHANGED <<exc, progressed>>
       ELSE /\ progressed' = Append(progressed, percent)
            /\ \/ pc' = next /\ UNCHANGED exc
               \/ \E e \in CallbackThrown : Throw(at, e)
    /\ UNCHANGED <<config, proc, logged, issued, peer,
                   cancelRequested, cancelSeenAt, logs, result, sandbox,
                   workspace, branchName, createCalls, gwLast, checked,
                   wait, requested, allocated, pkgFound,
                   reqFound>>
    /\ UNCHANGED execVars

RequestCancel_preemptive ==
    /\ pc \notin {"done", "raised", "caller"}
    /\ config.hasCancel
    /\ ~cancelRequested
    /\ cancelRequested' = TRUE
    /\ IF ecPc \in {"loop", "sleep"}
       THEN /\ cancelSeenAt' = pc
            /\ result' = CancelledResult(logs)
            /\ pc' = "done"
       ELSE UNCHANGED <<pc, cancelSeenAt, result>>
    /\ UNCHANGED <<config, proc, progressed, logged, issued, peer,
                   logs, exc, sandbox, workspace, branchName, createCalls,
                   gwLast, checked, wait, requested, allocated, pkgFound, reqFound>>
    /\ UNCHANGED execVars

\* the caller's cancellation flag is raised while createSandbox runs
RequestCancel ==
    /\ pc \notin {"done", "raised", "caller"}
    /\ config.hasCancel
    /\ ~cancelRequested
    /\ cancelRequested' = TRUE
    /\ UNCHANGED <<pc, config, proc, progressed, logged, issued, peer,
                   cancelSeenAt, logs, result, exc, sandbox, workspace,
                   branchName, createCalls, gwLast, checked,
                   wait, requested, allocated, pkgFound, reqFound>>
    /\ UNCHANGED execVars

\* types.ts 129-135: check for cancellation before starting
Check1 == CancellationCheck("check1", "progress20")

\* types.ts 137-140
Progress20 == ProgressReport("progress20", "validate", 20)

\* the secrets held in process.env (GITHUB_TOKEN is also the token written
\* to ~/.git-credentials)
GithubToken == "ghp_secret"
AnthropicApiKey == "sk-ant-secret"

\* process.env[name] || ''
EnvValue(name, env) ==
    IF name \notin env THEN ""
    ELSE IF name = "GITHUB_TOKEN" THEN GithubToken
    ELSE IF name = "ANTHROPIC_API_KEY" THEN AnthropicApiKey
    ELSE "set"

\* config.repoUrl, as the parts of a URL: scheme, user info, host and path
RepoUrl == <<"https://", "", "github.com", "/acme/app.git">>

\* createAuthenticatedRepoUrl(repoUrl)
CreateAuthenticatedRepoUrl(repoUrl, env) ==
    IF "GITHUB_TOKEN" \notin env THEN repoUrl
    ELSE IF repoUrl[3] = "github.com"
         THEN [repoUrl EXCEPT ![2] = GithubToken \o ":x-oauth-basic@"]
         ELSE repoUrl

\* createDaytonaConfiguration(options): the fields createSandbox logs and uses
CreateDaytonaConfiguration(repoUrl, branch, env) ==
    [gitUrl |-> repoUrl,
     branch |-> branch,
     language |-> "javascript",
     envVars |-> [n \in {"GITHUB_TOKEN", "ANTHROPIC_API_KEY", "ANTHROPIC_BASE_URL",
                         "ANTHROPIC_AUTH_TOKEN"} |-> EnvValue(n, env)]]

\* `Daytona config: ${JSON.stringify({...daytonaConfig, gitUrl: '[REDACTED]'})}`:
\* the keys and values of the text, in order
DaytonaConfigText(daytonaConfig) ==
    <<"Daytona config: ", "gitUrl", "[REDACTED]",
      "branch", daytonaConfig.branch,
      "language", daytonaConfig.language,
      "envVars",
      "GITHUB_TOKEN", daytonaConfig.envVars["GITHUB_TOKEN"],
      "ANTHROPIC_API_KEY", daytonaConfig.envVars["ANTHROPIC_API_KEY"],
      "ANTHROPIC_BASE_URL", daytonaConfig.envVars["ANTHROPIC_BASE_URL"],
      "ANTHROPIC_AUTH_TOKEN", daytonaConfig.envVars["ANTHROPIC_AUTH_TOKEN"]>>

Validate_lenient ==
    /\ pc = "validate"
    /\ pc' = "progress25"
    /\ UNCHANGED <<config, proc, progressed, logged, issued, peer,
                   cancelRequested, cancelSeenAt, logs, result, exc, sandbox,
                   workspace, branchName, createCalls, gwLast, checked,
                   wait, requested, allocated, pkgFound,
                   reqFound>>
    /\ UNCHANGED execVars

\* types.ts 142-176: validate the environment, build the Daytona configuration
Validate ==
    /\ pc = "validate"
    /\ LET envValidation ==
               ValidateEnvironmentVariables(config.selectedAgent, config.env)
           daytonaConfig ==
               CreateDaytonaConfiguration(
                   CreateAuthenticatedRepoUrl(RepoUrl, config.env),
                   CloneBranch, config.env)
       IN IF ~envValidation.valid
          THEN Throw("validate", Err(envValidation.error, {})) /\ UNCHANGED logged
          ELSE /\ pc' = "progress25"
               /\ logged' = logged \cup
                      {Literal("Environment variables validated"),
                       Literal("Added GitHub authentication to repository URL"),
                       DaytonaConfigText(daytonaConfig)}
               /\ UNCHANGED exc
    /\ UNCHANGED <<config, proc, progressed, issued, peer,
                   cancelRequested, cancelSeenAt, logs, result, sandbox,
                   workspace, branchName, createCalls, gwLast, checked,
                   wait, requested, allocated, pkgFound,
                   reqFound>>
    /\ UNCHANGED execVars

\* types.ts 178-181
Progress25 == ProgressReport("progress25", "create", 25)

\* the timeout of the readiness wait createSandbox causes, scaled down to
\* MaxPolls poll intervals (the call passes daytonaConfig.timeout, in seconds)
WaitSeconds == 2 * MaxPolls

\* daytona-client.ts 164-168: the locals of waitForWorkspaceReady on entry
StartWait(timeoutSeconds) ==
    [timeoutSeconds |-> timeoutSeconds, elapsed |-> 0, probes |-> 0, at |-> "test",
     last |-> "none", slept |-> <<>>]

\* const timeoutMs = timeoutSeconds * 1000
TimeoutMs(w) == w.timeoutSeconds * 1000

TimedOut_late(w) == ~(w.elapsed < TimeoutMs(w) + 2 * PollInterval)

\* the negation of the loop condition  Date.now() - startTime < timeoutMs
TimedOut(w) == ~(w.elapsed < TimeoutMs(w))

\* what one probe (daytona.get, then echo "ready") may come to
ProbeOutcomes == {"exit0", "nonzero", "get_threw", "echo_threw"}

\* the time one probe may take (ms)
ProbeMillis == {0, 1000}

ProbeSucceeded_anyExit(outcome) == outcome \in {"exit0", "nonzero"}

\* if (testResult.exitCode === 0) return
ProbeSucceeded(outcome) == outcome = "exit0"

\* getDaytonaClient(): the module's singleton is instantiated at the first call
\* and returned as it is afterwards; p is the process state
GetDaytonaClient(p) == [p EXCEPT !.client = "instance"]

CreateWorkspace_noWait ==
    /\ pc = "create"
    /\ proc' = GetDaytonaClient(proc)
    /\ createCalls' = createCalls + 1
    /\ gwLast' = "create"
    /\ checked' = FALSE
    /\ requested' = NoResources
    /\ allocated' = ValidateAndOptimizeResources(NoResources)
    /\ \E id \in SandboxIds :
         /\ sandbox' = [id |-> id]
         /\ workspace' = [id |-> id, name |-> "coding-task-" \o config.taskId,
                          status |-> "running", url |-> <<>>, branch |-> CloneBranch]
    /\ pc' = "created"
    /\ UNCHANGED <<config, progressed, logged, issued, peer,
                   cancelRequested, cancelSeenAt, logs, result, exc,
                   branchName, wait, pkgFound, reqFound>>
    /\ UNCHANGED execVars

\* daytona-client.ts 54-71: createWorkspace up to the return of daytona.create;
\* createSandbox passes name, gitUrl, branch, language, envVars and timeout,
\* and no resources
CreateWorkspace ==
    /\ pc = "create"
    /\ proc' = GetDaytonaClient(proc)
    /\ requested' = NoResources
    /\ allocated' = ValidateAndOptimizeResources(requested')
    /\ createCalls' = createCalls + 1
    /\ gwLast' = "create"
    /\ checked' = FALSE
    /\ \/ \E id \in SandboxIds :
            /\ sandbox' = [id |-> id]
            /\ pc' = "ready"
            /\ wait' = StartWait(WaitSeconds)
            /\ UNCHANGED exc
       \/ \E e \in CreateThrown :
            /\ Throw("create", CreateWorkspaceError(e, allocated'))
            /\ UNCHANGED <<sandbox, wait>>
    /\ UNCHANGED <<config, progressed, logged, issued, peer,
                   cancelRequested, cancelSeenAt, logs, result, workspace,
                   branchName, pkgFound, reqFound>>
    /\ UNCHANGED execVars

\* daytona-client.ts 170-183: the loop condition holds; daytona.get and
\* echo "ready"; whatever is thrown is caught and only logged
ReadyProbe ==
    /\ pc = "ready"
    /\ wait.at = "test"
    /\ ~TimedOut(wait)
    /\ gwLast' = "ready"
    /\ checked' = FALSE
    /\ \E outcome \in ProbeOutcomes, took \in ProbeMillis :
         /\ wait' = [wait EXCEPT !.probes = @ + 1, !.elapsed = @ + took,
                                 !.last = outcome,
                                 !.at = IF ProbeSucceeded(outcome)
                                        THEN "returned" ELSE "sleep"]
         /\ pc' = IF ProbeSucceeded(outcome) THEN "clone" ELSE "ready"
    /\ UNCHANGED <<config, proc, progressed, logged, issued, peer,
                   cancelRequested, cancelSeenAt, logs, result, exc, sandbox,
                   workspace, branchName, createCalls, requested, allocated,
                   pkgFound, reqFound>>
    /\ UNCHANGED execVars

\* daytona-client.ts 185: await new Promise(resolve => setTimeout(resolve, pollInterval))
ReadySleep ==
    /\ pc = "ready"
    /\ wait.at = "sleep"
    /\ wait' = [wait EXCEPT !.elapsed = @ + PollInterval,
                            !.slept = Append(@, PollInterval),
                            !.at = "test"]
    /\ UNCHANGED <<pc, config, proc, progressed, logged, issued, peer,
                   cancelRequested, cancelSeenAt, logs, result, exc,
                   sandbox, workspace, branchName, createCalls, gwLast, checked,
                   requested, allocated, pkgFound, reqFound>>
    /\ UNCHANGED execVars

\* daytona-client.ts 188, 99-115: the loop condition fails; the Error thrown
\* is caught and wrapped by the catch block of createWorkspace
ReadyTimeout ==
    /\ pc = "ready"
    /\ wait.at = "test"
    /\ TimedOut(wait)
    /\ wait' = [wait EXCEPT !.at = "threw"]
    /\ Throw("ready",
             CreateWorkspaceError(ReadinessError(sandbox.id, wait.timeoutSeconds),
                                  allocated))
    /\ UNCHANGED <<config, proc, progressed, logged, issued, peer,
                   cancelRequested, cancelSeenAt, logs, result, sandbox,
                   workspace, branchName, createCalls, gwLast, checked, requested,
                   allocated, pkgFound, reqFound>>
    /\ UNCHANGED execVars

\* the DaytonaWorkspace createWorkspace returns (url: undefined)
NewWorkspace ==
    [id |-> sandbox.id, name |-> "coding-task-" \o config.taskId,
     status |-> "running", url |-> <<>>, branch |-> CloneBranch]

Clone_rethrows ==
    /\ pc = "clone"
    /\ gwLast' = "clone"
    /\ checked' = FALSE
    /\ wait' = NoWait
    /\ \/ /\ IF CloneBranch # "main"
             THEN pc' = "clone_checkout" /\ UNCHANGED workspace
             ELSE pc' = "created" /\ workspace' = NewWorkspace
          /\ UNCHANGED exc
       \/ /\ Throw("clone", Err("Failed to create sandbox: git clone failed", {}))
          /\ UNCHANGED workspace
    /\ UNCHANGED <<config, proc, progressed, logged, issued, peer,
                   cancelRequested, cancelSeenAt, logs, result, sandbox,
                   branchName, createCalls, requested, allocated, pkgFound, reqFound>>
    /\ UNCHANGED execVars

\* daytona-client.ts 77-80, 85-98: git clone; its failure is only warned about
Clone ==
    /\ pc = "clone"
    /\ gwLast' = "clone"
    /\ checked' = FALSE
    /\ wait' = NoWait
    /\ \/ \* the clone returned (whatever its exit code)
          IF CloneBranch # "main"
          THEN pc' = "clone_checkout" /\ UNCHANGED workspace
          ELSE pc' = "created" /\ workspace' = NewWorkspace
       \/ \* the clone threw: caught, the workspace is returned all the same
          pc' = "created" /\ workspace' = NewWorkspace
    /\ UNCHANGED <<config, proc, progressed, logged, issued, peer,
                   cancelRequested, cancelSeenAt, logs, result, exc, sandbox,
                   branchName, createCalls, requested, allocated, pkgFound, reqFound>>
    /\ UNCHANGED execVars

\* daytona-client.ts 81-84: cd /workspace && git checkout <branch>
CloneCheckout ==
    /\ pc = "clone_checkout"
    /\ gwLast' = "clone_checkout"
    /\ checked' = FALSE
    /\ wait' = NoWait
    /\ pc' = "created"
    /\ workspace' = NewWorkspace
    /\ UNCHANGED <<config, proc, progressed, logged, issued, peer,
                   cancelRequested, cancelSeenAt, logs, result, exc, sandbox,
                   branchName, createCalls, requested, allocated, pkgFound, reqFound>>
    /\ UNCHANGED execVars

\* types.ts 196-197
LogCreated ==
    /\ pc = "created"
    /\ logs' = Append(logs, Literal("Workspace created successfully"))
    /\ pc' = "check2"
    /\ UNCHANGED <<config, proc, progressed, logged, issued, peer,
                   cancelRequested, cancelSeenAt, result, exc, sandbox,
                   workspace, branchName, createCalls, gwLast, checked,
                   wait, requested, allocated, pkgFound,
                   reqFound>>
    /\ UNCHANGED execVars

\* types.ts 199-203: check for cancellation after workspace creation
Check2 == CancellationCheck("check2", "progress30")

\* types.ts 205-208
Progress30_restart == ProgressReport("progress30", "probe_pkg", 10)

\* types.ts 206-208: onProgress(30, ...)
Progress30 == ProgressReport("progress30", "probe_pkg", 30)

CatchInner_retryQuota ==
    /\ pc = "catch_inner"
    /\ IF exc.isError /\ "quota" \in exc.words
       THEN pc' = "create" /\ UNCHANGED exc
       ELSE /\ exc' = IF exc.isError /\ "timeout" \in exc.words
                      THEN Err("Workspace creation timed out. Try with a smaller repository or fewer dependencies.",
                               {})
                      ELSE exc
            /\ pc' = "catch_outer"
    /\ UNCHANGED <<config, proc, progressed, logged, issued, peer,
                   cancelRequested, cancelSeenAt, logs, result, sandbox,
                   workspace, branchName, createCalls, gwLast, checked,
                   wait, requested, allocated, pkgFound,
                   reqFound>>
    /\ UNCHANGED execVars

\* types.ts 209-232: the inner catch block
CatchInner ==
    /\ pc = "catch_inner"
    /\ LET \* errorMessage?.includes('timeout'); the errors thrown here carry
           \* name 'Error' and no code
           isTimeout == exc.isError /\ "timeout" \in exc.words
       IN exc' = IF isTimeout
                 THEN Err("Workspace creation timed out. Try with a smaller repository or fewer dependencies.",
                          {})
                 ELSE exc
    /\ pc' = "catch_outer"
    /\ UNCHANGED <<config, proc, progressed, logged, issued, peer,
                   cancelRequested, cancelSeenAt, logs, result, sandbox,
                   workspace, branchName, createCalls, gwLast, checked,
                   wait, requested, allocated, pkgFound,
                   reqFound>>
    /\ UNCHANGED execVars

CatchOuter_teardown ==
    /\ pc = "catch_outer"
    /\ result' = FailureResult(exc, logs)
    /\ pc' = "done"
    /\ gwLast' = IF "id" \in DOMAIN sandbox THEN "deleteWorkspace" ELSE gwLast
    /\ sandbox' = NoResult
    /\ UNCHANGED <<config, proc, progressed, logged, issued, peer,
                   cancelRequested, cancelSeenAt, logs, exc,
                   workspace, branchName, createCalls, checked,
                   wait, requested, allocated, pkgFound,
                   reqFound>>
    /\ UNCHANGED execVars

\* types.ts 413-423: the outer catch block
CatchOuter ==
    /\ pc = "catch_outer"
    /\ result' = FailureResult(exc, logs)
    /\ pc' = "done"
    /\ UNCHANGED <<config, proc, progressed, logged, issued, peer,
                   cancelRequested, cancelSeenAt, logs, exc, sandbox,
                   workspace, branchName, createCalls, gwLast, checked,
                   wait, requested, allocated, pkgFound,
                   reqFound>>
    /\ UNCHANGED execVars

----------------------------------------------------------------------------
(* createSandbox: the commands run through runCommandInWorkspace *)

\* the code positions at which createSandbox awaits runCommandInWorkspace, and
\* the command and args passed there
SiteCommand(at) ==
    CASE at = "probe_pkg" -> <<"test", <<"-f", "package.json">>>>
      [] at = "probe_req" -> <<"test", <<"-f", "requirements.txt">>>>
      [] at = "npm_install" -> <<"npm", <<"install">>>>
      [] at = "pip_install" -> <<"pip3", <<"install", "-r", "requirements.txt">>>>
      [] at = "git_name" -> <<"git", <<"config", "user.name", "Coding Agent">>>>
      [] at = "git_email" -> <<"git", <<"config", "user.email", "agent@example.com">>>>
      [] at = "git_revparse" -> <<"git", <<"rev-parse", "--git-dir">>>>
      [] at = "git_init" -> <<"git", <<"init">>>>
      [] at = "git_status" -> <<"git", <<"status", "--porcelain">>>>
      [] at = "git_branch" -> <<"git", <<"branch", "-a">>>>
      [] at = "git_remote" -> <<"git", <<"remote", "-v">>>>
      [] at = "cred_helper" -> <<"git", <<"config", "credential.helper", "store">>>>
      [] at = "cred_file" ->
            <<"sh", <<"-c", "echo \"https://" \o GithubToken
                            \o ":x-oauth-basic@github.com\" > ~/.git-credentials">>>>
      [] at = "checkout_existing" ->
            <<"git", <<"checkout", config.existingBranchName>>>>
      [] at = "checkout_pre" ->
            <<"git", <<"checkout", "-b", config.preDeterminedBranchName>>>>
      [] at = "checkout_gen" -> <<"git", <<"checkout", "-b", branchName>>>>

CommandSites ==
    {"probe_pkg", "probe_req", "npm_install", "pip_install", "git_name", "git_email",
     "git_revparse", "git_init", "git_status", "git_branch", "git_remote",
     "cred_helper", "cred_file", "checkout_existing", "checkout_pre", "checkout_gen"}

\* const fullCommand = args.length > 0 ? `${command} ${args.join(' ')}` : command
FullCommand(command, args) ==
    IF Len(args) > 0 THEN command \o " " \o Join(args, " ") ELSE command

\* runCommandInWorkspace: the CommandResult built from executeCommand's result
CommandResult(r, fullCommand) == r @@ [command |-> fullCommand]

RunCommand_sharedWorkspace ==
    /\ pc \in CommandSites
    /\ ecPc = "idle"
    /\ ExecEnter(FullCommand(SiteCommand(pc)[1], SiteCommand(pc)[2]), NoOptions)
    /\ issued' = Append(issued, [workspaceId |-> IF "id" \in DOMAIN peer.workspace
                                                 THEN peer.workspace.id
                                                 ELSE workspace.id,
                                 command |-> SiteCommand(pc)[1],
                                 args |-> SiteCommand(pc)[2]])
    /\ UNCHANGED <<pc, config, proc, progressed, logged, peer,
                   cancelRequested, cancelSeenAt, logs, result, exc, sandbox,
                   workspace, branchName, createCalls, gwLast, checked,
                   wait, requested, allocated, pkgFound,
                   reqFound>>

\* runCommandInWorkspace(workspace.id, command, args): the call of
\* daytonaClient.executeCommand(workspaceId, fullCommand, undefined)
RunCommand ==
    /\ pc \in CommandSites
    /\ ecPc = "idle"
    /\ ExecEnter(FullCommand(SiteCommand(pc)[1], SiteCommand(pc)[2]), NoOptions)
    /\ issued' = Append(issued, [workspaceId |-> workspace.id,
                                 command |-> SiteCommand(pc)[1],
                                 args |-> SiteCommand(pc)[2]])
    /\ UNCHANGED <<pc, config, proc, progressed, logged, peer,
                   cancelRequested, cancelSeenAt, logs, result, exc, sandbox,
                   workspace, branchName, createCalls, gwLast, checked,
                   wait, requested, allocated, pkgFound,
                   reqFound>>

\* the command awaited at `at` has returned
Returned(at) == pc = at /\ ecPc = "returned"

\* the result createSandbox gets back
Got == CommandResult(ecResult, ecCmd)

\* types.ts 242
ReturnProbePkg ==
    /\ Returned("probe_pkg")
    /\ pkgFound' = Got.success
    /\ pc' = "probe_req"
    /\ ExecLeave
    /\ UNCHANGED <<config, proc, progressed, logged, issued, peer,
                   cancelRequested, cancelSeenAt, logs, result, exc, sandbox,
                   workspace, branchName, createCalls, gwLast, checked,
                   wait, requested, allocated, reqFound>>

ReturnProbeReq_pipFirst ==
    /\ Returned("probe_req")
    /\ reqFound' = Got.success
    /\ pc' = IF InstallWanted
             THEN IF Got.success THEN "progress35p"
                  ELSE IF pkgFound THEN "progress35n" ELSE "ready_log"
             ELSE "ready_log"
    /\ ExecLeave
    /\ UNCHANGED <<config, proc, progressed, logged, issued, peer,
                   cancelRequested, cancelSeenAt, logs, result, exc, sandbox,
                   workspace, branchName, createCalls, gwLast, checked,
                   wait, requested, allocated, pkgFound>>

\* types.ts 243-248, 271-273, 290-292
ReturnProbeReq ==
    /\ Returned("probe_req")
    /\ reqFound' = Got.success
    /\ pc' = IF InstallWanted
             THEN IF pkgFound THEN "progress35n"
                  ELSE IF Got.success THEN "progress35p" ELSE "ready_log"
             ELSE "ready_log"
    /\ ExecLeave
    /\ UNCHANGED <<config, proc, progressed, logged, issued, peer,
                   cancelRequested, cancelSeenAt, logs, result, exc, sandbox,
                   workspace, branchName, createCalls, gwLast, checked,
                   wait, requested, allocated, pkgFound>>

\* types.ts 250-253
Progress35Node == ProgressReport("progress35n", "npm_install", 35)

\* types.ts 275-278
Progress35Python == ProgressReport("progress35p", "pip_install", 35)

ReturnNpmInstall_strict ==
    /\ Returned("npm_install")
    /\ IF Got.success
       THEN /\ logs' = Append(logs, Literal("Dependencies installed successfully"))
            /\ pc' = "check3"
            /\ UNCHANGED exc
       ELSE /\ Throw("npm_install", Err("Dependency installation failed", {}))
            /\ UNCHANGED logs
    /\ ExecLeave
    /\ UNCHANGED <<config, proc, progressed, logged, issued, peer,
                   cancelRequested, cancelSeenAt, result, sandbox,
                   workspace, branchName, createCalls, gwLast, checked,
                   wait, requested, allocated, pkgFound,
                   reqFound>>

\* types.ts 256-264
ReturnNpmInstall ==
    /\ Returned("npm_install")
    /\ logs' = Append(logs, IF Got.success
                            THEN Literal("Dependencies installed successfully")
                            ELSE Literal("Warning: Dependency installation failed"))
    /\ pc' = "check3"
    /\ ExecLeave
    /\ UNCHANGED <<config, proc, progressed, logged, issued, peer,
                   cancelRequested, cancelSeenAt, result, exc, sandbox,
                   workspace, branchName, createCalls, gwLast, checked,
                   wait, requested, allocated, pkgFound,
                   reqFound>>

\* types.ts 266-270: check for cancellation after dependency installation
Check3 == CancellationCheck("check3", "ready_log")

ReturnPipInstall_silent ==
    /\ Returned("pip_install")
    /\ pc' = "ready_log"
    /\ ExecLeave
    /\ UNCHANGED <<config, proc, progressed, logged, issued, peer,
                   cancelRequested, cancelSeenAt, logs, result, exc, sandbox,
                   workspace, branchName, createCalls, gwLast, checked,
                   wait, requested, allocated, pkgFound,
                   reqFound>>

\* types.ts 281-289
ReturnPipInstall ==
    /\ Returned("pip_install")
    /\ logs' = Append(logs,
                      IF Got.success
                      THEN Literal("Python dependencies installed successfully")
                      ELSE Literal("Warning: Python dependency installation failed"))
    /\ pc' = "ready_log"
    /\ ExecLeave
    /\ UNCHANGED <<config, proc, progressed, logged, issued, peer,
                   cancelRequested, cancelSeenAt, result, exc, sandbox,
                   workspace, branchName, createCalls, gwLast, checked,
                   wait, requested, allocated, pkgFound,
                   reqFound>>

\* types.ts 295-311
ReadyLog ==
    /\ pc = "ready_log"
    /\ logs' = Append(logs, IF pkgFound THEN Literal("Node.js project ready")
                            ELSE IF reqFound THEN Literal("Python project ready")
                            ELSE Literal("Workspace ready for development"))
    /\ pc' = "check4"
    /\ UNCHANGED <<config, proc, progressed, logged, issued, peer,
                   cancelRequested, cancelSeenAt, result, exc, sandbox,
                   workspace, branchName, createCalls, gwLast, checked,
                   wait, requested, allocated, pkgFound,
                   reqFound>>
    /\ UNCHANGED execVars

\* types.ts 313-317: check for cancellation before Git configuration
Check4 == CancellationCheck("check4", "git_name")

\* the position after a command whose result createSandbox does not test
AfterUntested(at) ==
    CASE at = "git_name" -> "git_email"
      [] at = "git_email" -> "git_revparse"
      [] at = "git_status" -> "git_branch"
      [] at = "git_branch" -> "git_remote"
      [] at = "git_remote" ->
            IF "GITHUB_TOKEN" \in config.env THEN "cred_helper" ELSE "branch"
      [] at = "cred_helper" -> "cred_file"
      [] at = "cred_file" -> "branch"

UntestedSites == {"git_name", "git_email", "git_status", "git_branch", "git_remote",
                  "cred_helper", "cred_file"}

\* types.ts 320-321, 338-355: the result is not looked at (or only logged)
ReturnUntested ==
    /\ pc \in UntestedSites
    /\ ecPc = "returned"
    /\ pc' = AfterUntested(pc)
    /\ ExecLeave
    /\ UNCHANGED <<config, proc, progressed, logged, issued, peer,
                   cancelRequested, cancelSeenAt, logs, result, exc, sandbox,
                   workspace, branchName, createCalls, gwLast, checked,
                   wait, requested, allocated, pkgFound,
                   reqFound>>

\* types.ts 324-326, 332-334
ReturnRevParse ==
    /\ Returned("git_revparse")
    /\ pc' = IF ~Got.success THEN "git_init" ELSE "git_status"
    /\ ExecLeave
    /\ UNCHANGED <<config, proc, progressed, logged, issued, peer,
                   cancelRequested, cancelSeenAt, logs, result, exc, sandbox,
                   workspace, branchName, createCalls, gwLast, checked,
                   wait, requested, allocated, pkgFound,
                   reqFound>>

ReturnGitInit_lenient ==
    /\ Returned("git_init")
    /\ pc' = "git_status" /\ UNCHANGED exc
    /\ ExecLeave
    /\ UNCHANGED <<config, proc, progressed, logged, issued, peer,
                   cancelRequested, cancelSeenAt, logs, result, sandbox,
                   workspace, branchName, createCalls, gwLast, checked,
                   wait, requested, allocated, pkgFound,
                   reqFound>>

\* types.ts 327-331
ReturnGitInit ==
    /\ Returned("git_init")
    /\ IF ~Got.success
       THEN Throw("git_init", Err("Failed to initialize Git repository", {}))
       ELSE pc' = "git_status" /\ UNCHANGED exc
    /\ ExecLeave
    /\ UNCHANGED <<config, proc, progressed, logged, issued, peer,
                   cancelRequested, cancelSeenAt, logs, result, sandbox,
                   workspace, branchName, createCalls, gwLast, checked,
                   wait, requested, allocated, pkgFound,
                   reqFound>>

\* timestamps and generateId() suffixes of the fallback branch name
Timestamps == {"2026-01-01T00-00-00"}
Suffixes == {"k3x9ab" \o ToString(n) : n \in 1 .. MaxInvocations}

\* generateId(): a random suffix, one this process has not generated before
GenerateId(generated) == Suffixes \ generated

GeneratedBranchName_noSuffix(timestamp, suffix) == "agent/" \o timestamp

\* branchName = `agent/${timestamp}-${suffix}`
GeneratedBranchName(timestamp, suffix) == "agent/" \o timestamp \o "-" \o suffix

ChooseBranch_preFirst ==
    /\ pc = "branch"
    /\ IF config.preDeterminedBranchName # ""
       THEN pc' = "checkout_pre" /\ UNCHANGED <<branchName, proc>>
       ELSE IF config.existingBranchName # ""
       THEN pc' = "checkout_existing" /\ UNCHANGED <<branchName, proc>>
       ELSE /\ pc' = "checkout_gen"
            /\ \E timestamp \in Timestamps, suffix \in GenerateId(proc.ids) :
                 /\ branchName' = GeneratedBranchName(timestamp, suffix)
                 /\ proc' = [proc EXCEPT !.ids = @ \cup {suffix}]
    /\ UNCHANGED <<config, progressed, logged, issued, peer,
                   cancelRequested, cancelSeenAt, logs, result, exc, sandbox,
                   workspace, createCalls, gwLast, checked,
                   wait, requested, allocated, pkgFound, reqFound>>
    /\ UNCHANGED execVars

\* types.ts 357-359, 369, 389-395: choose the branch strategy
ChooseBranch ==
    /\ pc = "branch"
    /\ IF config.existingBranchName # ""
       THEN pc' = "checkout_existing" /\ UNCHANGED <<branchName, proc>>
       ELSE IF config.preDeterminedBranchName # ""
       THEN pc' = "checkout_pre" /\ UNCHANGED <<branchName, proc>>
       ELSE /\ pc' = "checkout_gen"
            /\ \E timestamp \in Timestamps, suffix \in GenerateId(proc.ids) :
                 /\ branchName' = GeneratedBranchName(timestamp, suffix)
                 /\ proc' = [proc EXCEPT !.ids = @ \cup {suffix}]
    /\ UNCHANGED <<config, progressed, logged, issued, peer,
                   cancelRequested, cancelSeenAt, logs, result, exc, sandbox,
                   workspace, createCalls, gwLast, checked,
                   wait, requested, allocated, pkgFound, reqFound>>
    /\ UNCHANGED execVars

ReturnCheckout_fallsBack ==
    /\ pc \in {"checkout_existing", "checkout_pre", "checkout_gen"}
    /\ ecPc = "returned"
    /\ LET name == CASE pc = "checkout_existing" -> config.existingBranchName
                     [] pc = "checkout_pre" -> config.preDeterminedBranchName
                     [] pc = "checkout_gen" -> branchName
       IN IF ~Got.success /\ pc = "checkout_existing"
          THEN /\ pc' = "checkout_gen"
               /\ \E timestamp \in Timestamps, suffix \in Suffixes :
                    branchName' = "agent/" \o timestamp \o "-" \o suffix
               /\ UNCHANGED <<exc, result>>
          ELSE IF ~Got.success
          THEN /\ Throw(pc, Err("Failed to create Git branch " \o name, {}))
               /\ UNCHANGED <<branchName, result>>
          ELSE /\ branchName' = name
               /\ result' = SuccessResult(workspace, name, logs)
               /\ pc' = "done"
               /\ UNCHANGED exc
    /\ ExecLeave
    /\ UNCHANGED <<config, proc, progressed, logged, issued, peer,
                   cancelRequested, cancelSeenAt, logs, sandbox, workspace,
                   createCalls, gwLast, checked, wait, requested, allocated, pkgFound,
                   reqFound>>

\* types.ts 362-368, 375-388, 396-412: the branch command has returned
ReturnCheckout ==
    /\ pc \in {"checkout_existing", "checkout_pre", "checkout_gen"}
    /\ ecPc = "returned"
    /\ LET name == CASE pc = "checkout_existing" -> config.existingBranchName
                     [] pc = "checkout_pre" -> config.preDeterminedBranchName
                     [] pc = "checkout_gen" -> branchName
       IN IF ~Got.success
          THEN /\ Throw(pc, Err(IF pc = "checkout_existing"
                                THEN "Failed to checkout existing branch " \o name
                                ELSE "Failed to create Git branch " \o name, {}))
               /\ UNCHANGED <<branchName, result>>
          ELSE /\ branchName' = name
               /\ result' = SuccessResult(workspace, name, logs)
               /\ pc' = "done"
               /\ UNCHANGED exc
    /\ ExecLeave
    /\ UNCHANGED <<config, proc, progressed, logged, issued, peer,
                   cancelRequested, cancelSeenAt, logs, sandbox, workspace,
                   createCalls, gwLast, checked,
                   wait, requested, allocated, pkgFound, reqFound>>

----------------------------------------------------------------------------
(* One task attempt: createSandbox(config, logger) *)

Init == OrchInit /\ ExecIdle

Next ==
    \/ RequestCancel
    \/ Check1 \/ Progress20 \/ Validate \/ Progress25
    \/ CreateWorkspace \/ ReadyProbe \/ ReadySleep \/ ReadyTimeout \/ Clone \/ CloneCheckout
    \/ LogCreated \/ Check2 \/ Progress30 \/ CatchInner \/ CatchOuter
    \/ RunCommand \/ ExecAttempt \/ ExecBackoff
    \/ ReturnProbePkg \/ ReturnProbeReq \/ Progress35Node \/ Progress35Python
    \/ ReturnNpmInstall \/ Check3 \/ ReturnPipInstall \/ ReadyLog \/ Check4
    \/ ReturnUntested \/ ReturnRevParse \/ ReturnGitInit \/ ChooseBranch
    \/ ReturnCheckout

Spec == Init /\ [][Next]_vars

----------------------------------------------------------------------------
(* Repeated calls of createSandbox in one process *)

\* the requests of the repeated calls: a valid environment, no progress
\* callback, default install and resources, any branch names
RepeatConfigs ==
    {c \in Configs : /\ c.env = AllEnv
                     /\ ~c.hasProgress
                     /\ c.installDependencies = <<>>
                     /\ c.vcpus = <<>>}

\* the previous call has returned; the process calls createSandbox again
NextInvocation ==
    /\ pc = "done"
    /\ proc.invocation < MaxInvocations
    /\ proc' = [proc EXCEPT
                  !.invocation = @ + 1,
                  !.names = IF /\ result.success
                               /\ config.existingBranchName = ""
                               /\ config.preDeterminedBranchName = ""
                            THEN @ \cup {result.branchName} ELSE @]
    /\ pc' = "check1"
    /\ config' \in RepeatConfigs
    /\ progressed' = <<>>
    /\ logged' = {}
    /\ issued' = <<>>
    /\ peer' = NoPeer
    /\ cancelRequested' = FALSE
    /\ cancelSeenAt' = "none"
    /\ logs' = <<>>
    /\ result' = NoResult
    /\ exc' = NoResult
    /\ sandbox' = NoResult
    /\ workspace' = NoResult
    /\ branchName' = ""
    /\ createCalls' = 0
    /\ gwLast' = "none"
    /\ checked' = FALSE
    /\ wait' = NoWait
    /\ requested' = NoResult
    /\ allocated' = NoResult
    /\ pkgFound' = FALSE
    /\ reqFound' = FALSE
    /\ UNCHANGED execVars

InitRepeat == Init /\ config \in RepeatConfigs

NextRepeat == Next \/ NextInvocation

SpecRepeat == InitRepeat /\ [][NextRepeat]_vars

----------------------------------------------------------------------------
(* Two createSandbox calls of one process running concurrently.  The      *)
(* second call (the peer) is followed through the steps that touch what   *)
(* the two calls could share: the client singleton, the provider and      *)
(* generateId                                                             *)

\* ids daytona.create may give the peer's sandbox: the provider gives no id twice
PeerSandboxIds == {"ws-2"}

\* the variables of the first call: its locals and its executeCommand frame
attemptVars == <<pc, config, progressed, logged, issued,
                 cancelRequested, cancelSeenAt, logs, result, exc, sandbox,
                 workspace, branchName, createCalls, gwLast, checked,
                 wait, requested, allocated, pkgFound, reqFound,
                 ecPc, ecCmd, ecOptions, sent, attempt, maxRetries, delay, sleeps, delivered, kinds,
                 lastThrown, lastExit, ecResult>>

\* types.ts 125-127: the peer's call begins, with logs and locals of its own
PeerStart ==
    /\ peer.pc = "none"
    /\ peer' = [peer EXCEPT !.pc = "create"]
    /\ UNCHANGED <<proc, attemptVars>>

\* types.ts 185-194: getDaytonaClient() and createWorkspace of the peer
PeerCreate ==
    /\ peer.pc = "create"
    /\ proc' = GetDaytonaClient(proc)
    /\ \/ \E id \in PeerSandboxIds :
            peer' = [peer EXCEPT !.pc = "commands", !.workspace = [id |-> id]]
       \/ peer' = [peer EXCEPT !.pc = "done"]
    /\ UNCHANGED attemptVars

\* runCommandInWorkspace(workspace.id, ...) of the peer: workspace is its local
PeerCommand ==
    /\ peer.pc = "commands"
    /\ peer.targets = {}
    /\ peer' = [peer EXCEPT !.targets = @ \cup {peer.workspace.id}]
    /\ UNCHANGED <<proc, attemptVars>>

\* types.ts 389-404: the peer resolves a generated branch name and returns
PeerBranch ==
    /\ peer.pc = "commands"
    /\ peer.targets # {}
    /\ \E timestamp \in Timestamps, suffix \in GenerateId(proc.ids) :
         /\ peer' = [peer EXCEPT !.pc = "done",
                                 !.branchName = GeneratedBranchName(timestamp, suffix)]
         /\ proc' = [proc EXCEPT !.ids = @ \cup {suffix}]
    /\ UNCHANGED attemptVars

InitConcurrent == Init /\ config \in RepeatConfigs

NextConcurrent == Next \/ PeerStart \/ PeerCreate \/ PeerCommand \/ PeerBranch

SpecConcurrent == InitConcurrent /\ [][NextConcurrent]_vars

----------------------------------------------------------------------------
(* waitForWorkspaceReady(workspaceId, timeoutSeconds) on its own, as      *)
(* createWorkspace calls it once daytona.create has returned a sandbox    *)

\* the values of timeoutSeconds tried
Timeouts == 1 .. MaxTimeoutSeconds

InitReady ==
    /\ pc = "ready"
    /\ config \in {c \in Configs : /\ c.env = AllEnv
                                   /\ ~c.hasCancel /\ ~c.hasProgress
                                   /\ c.installDependencies = <<>>
                                   /\ c.vcpus = <<>>
                                   /\ c.existingBranchName = ""
                                   /\ c.preDeterminedBranchName = ""}
    /\ proc = NoProc
    /\ progressed = <<>>
    /\ logged = {}
    /\ issued = <<>>
    /\ peer = NoPeer
    /\ cancelRequested = FALSE
    /\ cancelSeenAt = "none"
    /\ logs = <<>>
    /\ result = NoResult
    /\ exc = NoResult
    /\ \E id \in SandboxIds : sandbox = [id |-> id]
    /\ workspace = NoResult
    /\ branchName = ""
    /\ createCalls = 1
    /\ gwLast = "create"
    /\ checked = FALSE
    /\ \E timeoutSeconds \in Timeouts : wait = StartWait(timeoutSeconds)
    /\ requested = NoResources
    /\ allocated = ValidateAndOptimizeResources(NoResources)
    /\ pkgFound = FALSE
    /\ reqFound = FALSE
    /\ ExecIdle

NextReady == ReadyProbe \/ ReadySleep \/ ReadyTimeout

SpecReady == InitReady /\ [][NextReady]_vars

\* the event loop runs every timer and every settled promise
SpecReadyLive == SpecReady /\ WF_vars(NextReady)

----------------------------------------------------------------------------
(* validateAndOptimizeResources(requestedResources) on its own, applied   *)
(* to a request and then to its own result                                *)

\* the values a field of the request may hold: absent, or a number
ResourceValues ==
    {<<>>} \cup {<<n>> : n \in (-1 .. MaxResource) \cup {16, 20}}

Requests == [cpu : ResourceValues, memory : ResourceValues, disk : ResourceValues]

\* an allocation passed back as a request
AsRequest(r) == [cpu |-> <<r.cpu>>, memory |-> <<r.memory>>, disk |-> <<r.disk>>]

InitResources ==
    /\ pc = "resources"
    /\ config \in {c \in Configs : /\ c.env = AllEnv
                                   /\ ~c.hasCancel /\ ~c.hasProgress
                                   /\ c.installDependencies = <<>>
                                   /\ c.vcpus = <<>>
                                   /\ c.existingBranchName = ""
                                   /\ c.preDeterminedBranchName = ""}
    /\ proc = NoProc
    /\ progressed = <<>>
    /\ logged = {}
    /\ issued = <<>>
    /\ peer = NoPeer
    /\ cancelRequested = FALSE
    /\ cancelSeenAt = "none"
    /\ logs = <<>>
    /\ result = NoResult
    /\ exc = NoResult
    /\ sandbox = NoResult
    /\ workspace = NoResult
    /\ branchName = ""
    /\ createCalls = 0
    /\ gwLast = "none"
    /\ checked = FALSE
    /\ wait = NoWait
    /\ requested \in Requests
    /\ allocated = NoResult
    /\ pkgFound = FALSE
    /\ reqFound = FALSE
    /\ ExecIdle

\* const resources = this.validateAndOptimizeResources(options.resources)
CallValidateResources ==
    /\ pc = "resources"
    /\ allocated' = ValidateAndOptimizeResources(requested)
    /\ pc' = "validated"
    /\ UNCHANGED <<config, proc, progressed, logged, issued, peer,
                   cancelRequested, cancelSeenAt, logs, result, exc, sandbox,
                   workspace, branchName, createCalls, gwLast, checked, wait,
                   requested, pkgFound, reqFound>>
    /\ UNCHANGED execVars

\* the allocation is passed through validateAndOptimizeResources again
Revalidate ==
    /\ pc = "validated"
    /\ requested' = AsRequest(allocated)
    /\ allocated' = ValidateAndOptimizeResources(requested')
    /\ pc' = "revalidated"
    /\ UNCHANGED <<config, proc, progressed, logged, issued, peer,
                   cancelRequested, cancelSeenAt, logs, result, exc, sandbox,
                   workspace, branchName, createCalls, gwLast, checked, wait,
                   pkgFound, reqFound>>
    /\ UNCHANGED execVars

NextResources == CallValidateResources \/ Revalidate

SpecResources == InitResources /\ [][NextResources]_vars

----------------------------------------------------------------------------
(* createDaytonaConfiguration as the tests call it: the timeout option and *)
(* the resources option, and what the returned configuration holds         *)

DigitChars == <<"0", "1", "2", "3", "4", "5", "6", "7", "8", "9">>

\* the decimal text of a natural number, one character per element
RECURSIVE DecimalChars(_)
DecimalChars(n) ==
    IF n < 10 THEN <<DigitChars[n + 1]>>
    ELSE Append(DecimalChars(n \div 10), DigitChars[(n % 10) + 1])

\* the text 'Nm'
MinutesText(n) == Append(DecimalChars(n), "m")

IsDigit(ch) == \E d \in 1 .. 10 : DigitChars[d] = ch
DigitValue(ch) == (CHOOSE d \in 1 .. 10 : DigitChars[d] = ch) - 1

\* timeout.replace(/\D/g, '')
DigitsOnly(text) == SelectSeq(text, IsDigit)

\* parseInt of a text of digits: NaN (no element) for the empty text
RECURSIVE DecimalValue(_)
DecimalValue(digits) ==
    IF Len(digits) = 0 THEN 0
    ELSE 10 * DecimalValue(SubSeq(digits, 1, Len(digits) - 1))
         + DigitValue(digits[Len(digits)])
ParseInt(digits) == IF Len(digits) = 0 THEN <<>> ELSE <<DecimalValue(digits)>>

\* part_006 78: timeout ? parseInt(timeout.replace(/\D/g, '')) * 60 : 5 * 60
\* (an absent and an empty timeout are falsy; NaN * 60 is NaN)
TimeoutSecondsOf(timeout) ==
    IF Len(timeout) = 0 \/ Len(timeout[1]) = 0
    THEN <<5 * 60>>
    ELSE LET parsed == ParseInt(DigitsOnly(timeout[1]))
         IN  IF Len(parsed) = 0 THEN <<>> ELSE <<parsed[1] * 60>>

\* part_006 66, 85-89: resources = { vcpus: 4 } when the option is absent;
\* cpu: Math.min(resources.vcpus || 1, 4), memory: 2, disk: 5
ConfigurationResources(resources) ==
    LET vcpus == IF Len(resources) = 0 THEN <<4>> ELSE resources[1].vcpus
        wanted == OrDefault(vcpus, 1)
    IN  [cpu |-> IF wanted < 4 THEN wanted ELSE 4, memory |-> 2, disk |-> 5]

\* the timeout options tried: absent, '', 'm', and '0m' .. 'Nm'
TimeoutOptions ==
    {<<>>, <<<<>>>>, <<<<"m">>>>} \cup {<<MinutesText(n)>> : n \in 0 .. MaxMinutes}

\* the resources options tried: absent, {}, and { vcpus: n }
ResourcesOptions ==
    {<<>>, <<[vcpus |-> <<>>]>>} \cup {<<[vcpus |-> <<n>>]>> : n \in -1 .. MaxResource}

InitConfiguration ==
    /\ pc = "configure"
    /\ config = [taskId |-> "t1"]
    /\ proc = NoProc
    /\ progressed = <<>>
    /\ logged = {}
    /\ issued = <<>>
    /\ peer = NoPeer
    /\ cancelRequested = FALSE
    /\ cancelSeenAt = "none"
    /\ logs = <<>>
    /\ result = NoResult
    /\ exc = NoResult
    /\ sandbox = NoResult
    /\ workspace = NoResult
    /\ branchName = ""
    /\ createCalls = 0
    /\ gwLast = "none"
    /\ checked = FALSE
    /\ wait = NoWait
    /\ requested \in [timeout : TimeoutOptions, resources : ResourcesOptions]
    /\ allocated = NoResult
    /\ pkgFound = FALSE
    /\ reqFound = FALSE
    /\ ExecIdle

\* const config = createDaytonaConfiguration({ ..., timeout, resources })
CallCreateDaytonaConfiguration ==
    /\ pc = "configure"
    /\ allocated' = [timeout |-> TimeoutSecondsOf(requested.timeout),
                     resources |-> ConfigurationResources(requested.resources)]
    /\ pc' = "configured"
    /\ UNCHANGED <<config, proc, progressed, logged, issued, peer,
                   cancelRequested, cancelSeenAt, logs, result, exc, sandbox,
                   workspace, branchName, createCalls, gwLast, checked, wait,
                   requested, pkgFound, reqFound>>
    /\ UNCHANGED execVars

NextConfiguration == CallCreateDaytonaConfiguration

SpecConfiguration == InitConfiguration /\ [][NextConfiguration]_vars

----------------------------------------------------------------------------
(* createSandbox end to end on a gateway on which every call succeeds:    *)
(* the same actions, with the provider's and the caller's answers         *)
(* restricted to the successful ones                                      *)

\* the requests of the scenario: a valid environment, no branch hints, default
\* resources, dependency install enabled
HappyConfigs ==
    {c \in Configs : /\ c.env = AllEnv
                     /\ c.installDependencies # <<FALSE>>
                     /\ c.vcpus = <<>>
                     /\ c.existingBranchName = ""
                     /\ c.preDeterminedBranchName = ""}

ProbeSites == {"probe_pkg", "probe_req"}
CallbackSites == {"check1", "check2", "check3", "check4",
                  "progress20", "progress25", "progress30", "progress35n",
                  "progress35p"}

\* what the step shows of the provider and of the caller's callbacks:
\* daytona.create returns a sandbox, the first readiness probe exits 0, every
\* command is delivered and exits 0 (a manifest probe may exit 1, for a file
\* that is not there, but one of the two manifests is there), and
\* onCancellationCheck and onProgress return without throwing
GatewaySucceeds ==
    /\ pc = "create" => pc' = "ready"
    /\ pc = "ready" => pc' = "clone"
    /\ pc \in CallbackSites => pc' \notin {"catch_inner", "catch_outer"}
    /\ (ecPc = "loop" /\ ecPc' # "loop") =>
          /\ delivered' = delivered + 1
          /\ pc \notin ProbeSites => lastExit' = 0
          /\ (pc = "probe_req" /\ ~pkgFound /\ ecPc' = "returned") =>
                ecResult'.success

InitHappy == Init /\ config \in HappyConfigs

NextHappy ==
    \/ Check1 /\ GatewaySucceeds
    \/ Progress20 /\ GatewaySucceeds
    \/ Validate /\ GatewaySucceeds
    \/ Progress25 /\ GatewaySucceeds
    \/ CreateWorkspace /\ GatewaySucceeds
    \/ ReadyProbe /\ GatewaySucceeds
    \/ Clone /\ GatewaySucceeds
    \/ LogCreated /\ GatewaySucceeds
    \/ Check2 /\ GatewaySucceeds
    \/ Progress30 /\ GatewaySucceeds
    \/ RunCommand /\ GatewaySucceeds
    \/ ExecAttempt /\ GatewaySucceeds
    \/ ExecBackoff /\ GatewaySucceeds
    \/ ReturnProbePkg /\ GatewaySucceeds
    \/ ReturnProbeReq /\ GatewaySucceeds
    \/ Progress35Node /\ GatewaySucceeds
    \/ Progress35Python /\ GatewaySucceeds
    \/ ReturnNpmInstall /\ GatewaySucceeds
    \/ Check3 /\ GatewaySucceeds
    \/ ReturnPipInstall /\ GatewaySucceeds
    \/ ReadyLog /\ GatewaySucceeds
    \/ Check4 /\ GatewaySucceeds
    \/ ReturnUntested /\ GatewaySucceeds
    \/ ReturnRevParse /\ GatewaySucceeds
    \/ ChooseBranch /\ GatewaySucceeds
    \/ ReturnCheckout /\ GatewaySucceeds

SpecHappy == InitHappy /\ [][NextHappy]_vars

\* the event loop runs every settled promise and every timer
SpecHappyLive == SpecHappy /\ WF_vars(NextHappy)

----------------------------------------------------------------------------
(* createSandbox from the computation of the domain (types.ts 295) to its *)
(* return, for a workspace handle as a gateway adapter may return it:     *)
(* with or without a url                                                  *)

\* workspace.url: absent (what DaytonaClient.createWorkspace returns), empty,
\* or an address
WorkspaceUrls == {<<>>, <<"">>, <<"https://3000-ws-1.proxy.example">>}

\* the requests of these attempts: a valid environment, no install
DomainConfigs ==
    {c \in Configs : /\ c.env = AllEnv
                     /\ ~c.hasProgress
                     /\ c.installDependencies = <<FALSE>>
                     /\ c.vcpus = <<>>}

\* the attempt has created its workspace and run the two manifest probes
InitDomain ==
    /\ pc = "ready_log"
    /\ config \in DomainConfigs
    /\ proc = GetDaytonaClient(NoProc)
    /\ progressed = <<>>
    /\ logged = {Literal("Environment variables validated"),
                 Literal("Added GitHub authentication to repository URL"),
                 DaytonaConfigText(CreateDaytonaConfiguration(
                     CreateAuthenticatedRepoUrl(RepoUrl, config.env),
                     CloneBranch, config.env))}
    /\ sandbox \in {[id |-> id] : id \in SandboxIds}
    /\ workspace \in {[NewWorkspace EXCEPT !.url = url] : url \in WorkspaceUrls}
    /\ issued = <<[workspaceId |-> sandbox.id, command |-> "test",
                   args |-> <<"-f", "package.json">>],
                  [workspaceId |-> sandbox.id, command |-> "test",
                   args |-> <<"-f", "requirements.txt">>]>>
    /\ peer = NoPeer
    /\ cancelRequested = FALSE
    /\ cancelSeenAt = "none"
    /\ logs = <<Literal("Workspace created successfully")>>
    /\ result = NoResult
    /\ exc = NoResult
    /\ branchName = ""
    /\ createCalls = 1
    /\ gwLast = "probe_req"
    /\ checked = FALSE
    /\ wait = NoWait
    /\ requested = NoResources
    /\ allocated = ValidateAndOptimizeResources(NoResources)
    /\ pkgFound \in BOOLEAN
    /\ reqFound \in BOOLEAN
    /\ ExecIdle

NextDomain ==
    \/ RequestCancel
    \/ ReadyLog \/ Check4
    \/ RunCommand \/ ExecAttempt \/ ExecBackoff
    \/ ReturnUntested \/ ReturnRevParse \/ ReturnGitInit \/ ChooseBranch
    \/ ReturnCheckout \/ CatchOuter

SpecDomain == InitDomain /\ [][NextDomain]_vars

----------------------------------------------------------------------------
(* Properties of createSandbox, checked under Spec *)

Returned_ == pc = "done"
ReturnedCancelled ==
    Returned_ /\ ~result.success /\ "cancelled" \in DOMAIN result /\ result.cancelled
ReturnedSuccess == Returned_ /\ result.success
ReturnedFailure ==
    Returned_ /\ ~result.success /\ "error" \in DOMAIN result

\* the stage of the orchestrator's state machine a code position belongs to
StageOf(at) ==
    CASE at \in {"none", "check1", "progress20", "validate"} -> "Validating"
      [] at \in {"progress25", "create"} -> "Provisioning"
      [] at \in {"ready", "clone", "clone_checkout", "created", "check2",
                 "progress30"} -> "AwaitingReadiness"
      [] at \in {"probe_pkg", "probe_req", "progress35n", "progress35p",
                 "npm_install", "pip_install", "check3", "ready_log", "check4"}
            -> "InstallingDependencies"
      [] at \in {"git_name", "git_email", "git_revparse", "git_init", "git_status",
                 "git_branch", "git_remote", "cred_helper", "cred_file"}
            -> "ConfiguringGit"
      [] at \in {"branch", "checkout_existing", "checkout_pre", "checkout_gen"}
            -> "ResolvingBranch"
      [] at \in {"catch_inner", "catch_outer", "raised"} -> "Failed"

StageRank(stage) ==
    CASE stage = "Validating" -> 0
      [] stage = "Provisioning" -> 1
      [] stage = "AwaitingReadiness" -> 2
      [] stage = "InstallingDependencies" -> 3
      [] stage = "ConfiguringGit" -> 4
      [] stage = "ResolvingBranch" -> 5
      [] stage = "Done" -> 6
      [] stage \in {"Cancelled", "Failed"} -> 7

\* the stage the attempt is in
Stage ==
    IF pc # "done" THEN StageOf(pc)
    ELSE IF result.success THEN "Done"
    ELSE IF "cancelled" \in DOMAIN result THEN "Cancelled"
    ELSE "Failed"

\* the stages C1 names as preceded by a cancellation check
CheckedStages ==
    {"Provisioning", "InstallingDependencies", "ConfiguringGit", "ResolvingBranch"}

\* C1 as stated: when a cancellation-check callback is supplied, it is asked
\* before each transition into Provisioning, InstallingDependencies,
\* ConfiguringGit, ResolvingBranch and Done: the first gateway action of each
\* of these stages, and the success return, come only after the callback was
\* asked (and returned false) since the previous stage's last gateway action.
C1_CheckBeforeEveryTransition ==
    [][/\ (/\ config.hasCancel
           /\ StageOf(gwLast') # StageOf(gwLast)
           /\ StageOf(gwLast') \in CheckedStages) => checked
       /\ (/\ config.hasCancel
           /\ pc # "done" /\ pc' = "done" /\ result'.success) => checked]_vars

\* C2: if onCancellationCheck() returned true at the first checkpoint, the
\* call has returned {success:false, cancelled:true} and daytona.create was
\* invoked zero times.
C2_CancelBeforeProvisioning ==
    cancelSeenAt = "check1" =>
        /\ ReturnedCancelled
        /\ DOMAIN result = {"success", "cancelled", "logs"}
        /\ createCalls = 0
        /\ gwLast = "none"

C2_Witness ==
    /\ cancelSeenAt = "check1" /\ ReturnedCancelled /\ createCalls = 0

\* C3 as stated: if cancellation is observed after the workspace was created
\* and before Git setup, the result is cancelled:true and some entry of the
\* returned logs contains the id of the created workspace.
C3_CancelAfterCreateLogsId ==
    cancelSeenAt \in {"check2", "check3", "check4"} =>
        /\ ReturnedCancelled
        /\ \E i \in 1 .. Len(result.logs) : Mentions(result.logs[i], workspace.id)

\* C4: the stages occur in the fixed order Validating, Provisioning,
\* AwaitingReadiness, InstallingDependencies, ConfiguringGit, ResolvingBranch,
\* Done: every step stays in its stage, moves to the next one, or ends in
\* Cancelled or Failed; every gateway action belongs to the stage of the
\* previous gateway action or to the next one; success is returned only from
\* a branch command that succeeded; nothing happens after a return.
C4_StagesInOrder ==
    [][/\ pc # "done"
       /\ \/ Stage' = Stage
          \/ StageRank(Stage') = StageRank(Stage) + 1
          \/ Stage' \in {"Cancelled", "Failed"}
       /\ StageRank(StageOf(gwLast')) - StageRank(StageOf(gwLast)) \in {0, 1}
       /\ gwLast' # gwLast => StageOf(gwLast') = Stage
       /\ (pc' = "done" /\ result'.success) =>
              /\ Stage = "ResolvingBranch"
              /\ StageOf(gwLast) = "ResolvingBranch"
              /\ ecResult.success
              /\ result'.branchName # ""]_vars

C4_Witness ==
    /\ ReturnedSuccess
    /\ StageOf(gwLast) = "ResolvingBranch"
    /\ createCalls = 1

\* C5: no exception leaves createSandbox: whatever was thrown inside it
\* (validation, daytona.create, readiness, a failed git command, a callback),
\* the call returns success:false with a non-empty error message.
C5_ErrorsAreReturned ==
    /\ pc # "raised"
    /\ (Returned_ /\ exc # NoResult) =>
          /\ ReturnedFailure
          /\ result.error # ""
    /\ (Returned_ /\ "error" \in DOMAIN result) => (~result.success /\ result.error # "")

C5_Witness ==
    /\ ReturnedFailure
    /\ exc.isError /\ exc.message = ""
    /\ result.error = "Failed to create workspace"

\* C6: every result returned is either success=true with workspace and
\* branchName set and neither error nor cancelled set, or success=false with
\* exactly one of error and cancelled set and no workspace or branchName.
C6_ResultShape ==
    Returned_ =>
        IF result.success
        THEN /\ {"workspace", "branchName"} \subseteq DOMAIN result
             /\ result.workspace # NoResult
             /\ result.branchName # ""
             /\ DOMAIN result \cap {"error", "cancelled"} = {}
        ELSE /\ Cardinality(DOMAIN result \cap {"error", "cancelled"}) = 1
             /\ "error" \in DOMAIN result => result.error # ""
             /\ "cancelled" \in DOMAIN result => result.cancelled
             /\ DOMAIN result \cap {"workspace", "branchName"} = {}

C6_Witness ==
    /\ ReturnedSuccess
    /\ result.branchName = "feature/x"
    /\ result.workspace.id = "ws-1"

----------------------------------------------------------------------------
(* Properties of executeCommand, checked under SpecExec *)

ExecReturned == ecPc = "returned"

\* C7 as stated: when every attempt throws a retryable transport error,
\* executeCommand retries (re-attempts after the first attempt) exactly
\* maxRetries times and then returns success:false.
C7_RetriesEqualMaxRetries ==
    (ExecReturned /\ kinds = {"transport"}) =>
        /\ attempt - 1 = maxRetries
        /\ Len(sleeps) = maxRetries
        /\ ~ecResult.success

\* C7 amended: when every attempt throws a retryable transport error,
\* executeCommand makes exactly maxRetries attempts, that is maxRetries - 1
\* retries with maxRetries - 1 backoff sleeps, and then returns success:false.
C7_AttemptsEqualMaxRetries ==
    (ExecReturned /\ kinds = {"transport"}) =>
        /\ attempt = maxRetries
        /\ Len(sleeps) = maxRetries - 1
        /\ ~ecResult.success
        /\ ecResult.exitCode = 1

C7_Witness ==
    /\ ExecReturned /\ kinds = {"transport"}
    /\ maxRetries = DefaultRetries /\ attempt = 3 /\ Len(sleeps) = 2

\* the error classes C8 names: authorization, not-found, permission-denied
NamedNonRetryable ==
    {"401 Unauthorized", "403 Forbidden", "Sandbox not found", "Permission denied"}

\* C8: when an attempt throws an authorization, not-found or
\* permission-denied error, executeCommand has returned success:false at that
\* very attempt: no further attempt and no backoff sleep follows it, whatever
\* maxRetries is and whichever attempt it was.
C8_NonRetryableShortCircuits ==
    (lastThrown # NoResult /\ lastThrown.isError
        /\ lastThrown.message \in NamedNonRetryable) =>
        /\ ExecReturned
        /\ ~ecResult.success
        /\ ecResult.error = lastThrown.message
        /\ Len(sleeps) = attempt - 1
        /\ attempt <= maxRetries

C8_Witness ==
    /\ ExecReturned
    /\ lastThrown # NoResult /\ lastThrown.isError
    /\ lastThrown.message = "Sandbox not found"
    /\ attempt = 2 /\ maxRetries = 4 /\ Len(sleeps) = 1

\* C9 as stated: a command that is delivered and exits nonzero is run
\* exactly once and reported as success=false with its exit code.
C9_NonzeroRunOnce ==
    (ExecReturned /\ kinds = {"nonzero"}) =>
        /\ delivered = 1
        /\ ~ecResult.success
        /\ ecResult.exitCode = lastExit

\* C9 amended: a command that is delivered and exits nonzero on every
\* attempt is retried like a transport failure: it is run maxRetries times
\* (3 by default) with a backoff sleep between the runs, and the result is
\* success=false with the exit code of the last run.
C9_NonzeroRetriedToTheEnd ==
    (ExecReturned /\ kinds = {"nonzero"}) =>
        /\ delivered = maxRetries
        /\ Len(sleeps) = maxRetries - 1
        /\ ~ecResult.success
        /\ lastExit # 0
        /\ ecResult.exitCode = lastExit

C9_Witness ==
    /\ ExecReturned /\ kinds = {"nonzero"}
    /\ delivered = 3 /\ maxRetries = DefaultRetries /\ ecResult.exitCode = 2

\* C10: the k-th backoff sleep, between failed attempt k and attempt k+1, is
\* exactly 1000 * 2^(k-1) ms; the sleeps strictly increase; and no sleep
\* follows the final attempt.
C10_BackoffExact ==
    /\ \A k \in 1 .. Len(sleeps) : sleeps[k] = 1000 * Pow2(k - 1)
    /\ \A k \in 1 .. Len(sleeps) - 1 : sleeps[k] < sleeps[k + 1]
    /\ ecPc \in {"loop", "returned"} => Len(sleeps) = attempt - 1
    /\ ecPc = "sleep" => (Len(sleeps) = attempt - 1 /\ attempt < maxRetries)

C10_Witness ==
    /\ ExecReturned
    /\ sleeps = <<1000, 2000, 4000>>
    /\ attempt = 4

----------------------------------------------------------------------------
(* Cancellation and in-flight commands, checked under Spec *)

\* the positions of createSandbox at which onCancellationCheck is called
Checkpoints == {"check1", "check2", "check3", "check4"}

\* a call of executeCommand has been entered and has not returned
CommandInFlight == ecPc \in {"loop", "sleep"}

\* C11: cancellation is cooperative.  Once a cancellation check has returned
\* true no further gateway call (create, probe, clone, command attempt) is
\* issued: the call has returned.  Cancellation is observed only at a
\* checkpoint, with no command in flight; while a command is in flight, a
\* cancellation requested before or during it neither cancels the attempt nor
\* moves createSandbox on: the command runs to its own return first.
C11_CancellationIsCooperative ==
    [][/\ cancelSeenAt # "none" =>
             /\ pc = "done"
             /\ UNCHANGED <<gwLast, createCalls, delivered, wait, ecPc, attempt>>
       /\ cancelSeenAt' # cancelSeenAt =>
             /\ pc \in Checkpoints
             /\ cancelSeenAt' = pc
             /\ ~CommandInFlight
             /\ ecPc = "idle"
       /\ (CommandInFlight /\ cancelRequested') =>
             /\ pc' = pc
             /\ result' = result
             /\ cancelSeenAt' = "none"
             /\ ecPc' \in {"loop", "sleep", "returned"}]_vars

\* a command was retried and has returned while cancellation was requested
\* and not yet observed
C11_Witness ==
    /\ cancelRequested
    /\ cancelSeenAt = "none"
    /\ pc = "npm_install"
    /\ ecPc = "returned"
    /\ Len(sleeps) >= 1

----------------------------------------------------------------------------
(* Properties of waitForWorkspaceReady, checked under SpecReady *)

\* C12: waitForWorkspaceReady returns normally only in a step in which the
\* echo probe was delivered and exited with code 0; a probe that throws (at
\* daytona.get or at the echo) or exits nonzero raises nothing and is followed
\* by a sleep of exactly 2000 ms and another turn of the loop; the only
\* exception that leaves the wait is raised by the elapsed timeout.
C12_ReadyOnlyAfterEchoZero ==
    [][pc = "ready" =>
         /\ pc' = "clone" =>
               /\ wait'.probes = wait.probes + 1
               /\ wait'.last = "exit0"
               /\ gwLast' = "ready"
         /\ (wait'.probes # wait.probes /\ wait'.last # "exit0") =>
               /\ pc' = "ready"
               /\ exc' = exc
               /\ wait'.at = "sleep"
         /\ wait.at = "sleep" =>
               /\ pc' = "ready"
               /\ wait'.elapsed = wait.elapsed + 2000
               /\ wait'.slept = Append(wait.slept, 2000)
               /\ wait'.probes = wait.probes
               /\ wait'.at = "test"
         /\ exc' # exc =>
               /\ wait'.probes = wait.probes
               /\ wait.elapsed >= wait.timeoutSeconds * 1000]_vars

\* the wait returned at its third probe, after two probes that were swallowed
C12_Witness ==
    /\ pc = "clone"
    /\ wait.last = "exit0"
    /\ wait.probes = 3
    /\ wait.slept = <<2000, 2000>>

\* ceil(timeoutSeconds / 2)
HalfUp(timeoutSeconds) == (timeoutSeconds + 1) \div 2

\* C13 (under SpecReadyLive): waitForWorkspaceReady always terminates; when it
\* fails, it fails with the readiness error, the timeout has elapsed, no probe
\* of the call succeeded, and it made at least one and at most
\* ceil(timeoutSeconds / 2) + 1 probes.
C13_WaitTerminates ==
    /\ <>(pc # "ready")
    /\ [](wait.probes <= HalfUp(wait.timeoutSeconds) + 1)
    /\ [](wait.at = "threw" =>
            /\ pc # "clone"
            /\ wait.last \notin {"none", "exit0"}
            /\ wait.probes >= 1
            /\ wait.elapsed >= wait.timeoutSeconds * 1000
            /\ exc = CreateWorkspaceError(
                         ReadinessError(sandbox.id, wait.timeoutSeconds), allocated)
            /\ exc.message = "Failed to create sandbox: Workspace " \o sandbox.id
                   \o " failed to become ready within "
                   \o ToString(wait.timeoutSeconds) \o " seconds")

\* the wait timed out after as many probes as fit in the timeout
C13_Witness ==
    /\ wait.at = "threw"
    /\ wait.timeoutSeconds = 5
    /\ wait.probes = 3
    /\ wait.elapsed = 6000

----------------------------------------------------------------------------
(* Properties of validateAndOptimizeResources, checked under SpecResources *)

ResourcesReturned == pc \in {"validated", "revalidated"}

\* C14: for every request (each field absent, zero, negative, in range or
\* above the ceiling) validateAndOptimizeResources returns an allocation with
\* all three fields set, 1 <= cpu <= 4, 1 <= memory <= 8 and 3 <= disk <= 10.
C14_AllocationWithinLimits ==
    ResourcesReturned =>
        /\ DOMAIN allocated = {"cpu", "memory", "disk"}
        /\ allocated.cpu \in 1 .. 4
        /\ allocated.memory \in 1 .. 8
        /\ allocated.disk \in 3 .. 10

C14_Witness ==
    /\ pc = "validated"
    /\ requested = [cpu |-> <<-1>>, memory |-> <<>>, disk |-> <<11>>]
    /\ allocated = [cpu |-> 1, memory |-> 2, disk |-> 10]

\* C15: validateAndOptimizeResources is idempotent: applied to its own
\* result it returns that result unchanged.
C15_ClampIdempotent ==
    pc = "revalidated" =>
        /\ requested.cpu = <<allocated.cpu>>
        /\ requested.memory = <<allocated.memory>>
        /\ requested.disk = <<allocated.disk>>

C15_Witness ==
    /\ pc = "revalidated"
    /\ requested = [cpu |-> <<4>>, memory |-> <<1>>, disk |-> <<5>>]
    /\ allocated = [cpu |-> 4, memory |-> 1, disk |-> 5]

\* C16: the request {cpu:10, memory:16, disk:20} gives exactly
\* {cpu:4, memory:8, disk:10}, and a request with no resource hints gives
\* exactly {cpu:1, memory:2, disk:5}.
C16_CappedAndDefaultExamples ==
    pc = "validated" =>
        /\ requested = [cpu |-> <<10>>, memory |-> <<16>>, disk |-> <<20>>] =>
              allocated = [cpu |-> 4, memory |-> 8, disk |-> 10]
        /\ requested = NoResources =>
              allocated = [cpu |-> 1, memory |-> 2, disk |-> 5]

C16_Witness ==
    /\ pc = "validated"
    /\ requested = [cpu |-> <<10>>, memory |-> <<16>>, disk |-> <<20>>]
    /\ allocated = [cpu |-> 4, memory |-> 8, disk |-> 10]

\* one field clamped as C17 states it: the default only when the field is
\* absent, the ceiling above the ceiling, the floor below the floor (zero and
\* negatives included), the value itself otherwise
ClampedField(value, floor, ceiling, default) ==
    IF value = <<>> THEN default
    ELSE IF value[1] > ceiling THEN ceiling
    ELSE IF value[1] < floor THEN floor
    ELSE value[1]

\* C17 as stated: every field is clamped independently of the others: above
\* its ceiling it becomes the ceiling (4/8/10), below its floor, 0 and
\* negatives included, it becomes the floor (1/1/3), in range it is unchanged,
\* and the default (1/2/5) is used only when the field is absent.
C17_EachFieldClamped ==
    pc = "validated" =>
        /\ allocated.cpu = ClampedField(requested.cpu, 1, 4, 1)
        /\ allocated.memory = ClampedField(requested.memory, 1, 8, 2)
        /\ allocated.disk = ClampedField(requested.disk, 3, 10, 5)

----------------------------------------------------------------------------
(* Resources sent to daytona.create and branch resolution, checked under Spec *)

\* the resource hints of the request, as a request to validateAndOptimizeResources
HintsOf(c) == [cpu |-> c.vcpus, memory |-> <<>>, disk |-> <<>>]

\* C18 as stated: the resources daytona.create receives are the clamped
\* value of the request's resource hints, and never exceed cpu 4, memory 8,
\* disk 10.
C18_CreateReceivesClampedHints ==
    createCalls >= 1 =>
        /\ allocated = ValidateAndOptimizeResources(HintsOf(config))
        /\ allocated.cpu <= 4 /\ allocated.memory <= 8 /\ allocated.disk <= 10

\* the positions at which the branch command is awaited
BranchSites == {"checkout_existing", "checkout_pre", "checkout_gen"}

\* the position of the strategy the precedence existing > predetermined >
\* generated selects
StrategySite ==
    IF config.existingBranchName # "" THEN "checkout_existing"
    ELSE IF config.preDeterminedBranchName # "" THEN "checkout_pre"
    ELSE "checkout_gen"

\* the names the generated strategy may produce
GeneratedNames ==
    {"agent/" \o timestamp \o "-" \o suffix :
        timestamp \in Timestamps, suffix \in Suffixes}

\* C19: branch resolution follows existing > predetermined > generated: the
\* branch command awaited and issued is always the one of the first strategy
\* whose name is supplied (so with existingBranchName no `checkout -b` is
\* issued), no second strategy is entered, and on success the resolved
\* branch is existingBranchName, else preDeterminedBranchName, else a
\* generated agent/<timestamp>-<suffix> name.
C19_BranchPrecedence ==
    /\ pc \in BranchSites => pc = StrategySite
    /\ gwLast \in BranchSites => gwLast = StrategySite
    /\ (pc \in BranchSites /\ ecPc # "idle") =>
          ecCmd = (CASE StrategySite = "checkout_existing" ->
                            "git checkout " \o config.existingBranchName
                     [] StrategySite = "checkout_pre" ->
                            "git checkout -b " \o config.preDeterminedBranchName
                     [] StrategySite = "checkout_gen" ->
                            "git checkout -b " \o branchName)
    /\ ReturnedSuccess =>
          /\ gwLast = StrategySite
          /\ result.branchName = branchName
          /\ CASE StrategySite = "checkout_existing" ->
                      result.branchName = config.existingBranchName
               [] StrategySite = "checkout_pre" ->
                      result.branchName = config.preDeterminedBranchName
               [] StrategySite = "checkout_gen" ->
                      result.branchName \in GeneratedNames

\* both names were supplied and the existing one was resolved
C19_Witness ==
    /\ ReturnedSuccess
    /\ config.existingBranchName = "dev"
    /\ config.preDeterminedBranchName = "feature/x"
    /\ result.branchName = "dev"
    /\ gwLast = "checkout_existing"

\* the message of the Error thrown when the branch command of a site failed
BranchFailure(at) ==
    CASE at = "checkout_existing" ->
              "Failed to checkout existing branch " \o config.existingBranchName
      [] at = "checkout_pre" ->
              "Failed to create Git branch " \o config.preDeterminedBranchName
      [] at = "checkout_gen" -> "Failed to create Git branch " \o branchName

\* C20: when the branch command of the selected strategy (checkout of
\* existingBranchName, or creation of the predetermined or generated branch)
\* has failed, createSandbox throws the error naming the branch, issues no
\* further command, tries no other strategy, and returns success:false with
\* that error.
C20_FailedCheckoutFails ==
    [][/\ (pc \in BranchSites /\ ecPc = "returned" /\ ~ecResult.success /\ pc' # pc) =>
             /\ pc' = "catch_outer"
             /\ exc' = Err(BranchFailure(pc), {})
             /\ result' = result
             /\ gwLast' = pc
       /\ (pc = "catch_outer" /\ gwLast \in BranchSites /\ pc' # pc) =>
             /\ pc' = "done"
             /\ ~result'.success
             /\ result'.error = BranchFailure(gwLast)
             /\ DOMAIN result' = {"success", "error", "logs"}
             /\ gwLast' = gwLast
             /\ ecPc' = "idle"
       /\ (pc \in BranchSites /\ pc' \in BranchSites) => pc' = pc]_vars

C20_Witness ==
    /\ ReturnedFailure
    /\ gwLast = "checkout_existing"
    /\ config.preDeterminedBranchName = "feature/x"
    /\ result.error = "Failed to checkout existing branch dev"

----------------------------------------------------------------------------
(* Generated branch names, checked under SpecRepeat *)

\* the call resolved a generated branch name
ResolvedGenerated ==
    /\ ReturnedSuccess
    /\ config.existingBranchName = ""
    /\ config.preDeterminedBranchName = ""

InstallWarnings ==
    {Literal("Warning: Dependency installation failed"),
     Literal("Warning: Python dependency installation failed")}

InstallFailedIn(l) == \E j \in 1 .. Len(l) : l[j] \in InstallWarnings

\* C22: dependency installation is best-effort: when the npm install or the
\* pip3 install command comes back unsuccessful, the attempt pushes a warning
\* onto logs, sets no result, raises nothing and goes on to the next step of
\* the set-up (the cancellation check after npm, the readiness entry after
\* pip), from where Git configuration and branch resolution follow.
C22_InstallBestEffort ==
    [][/\ (Returned("npm_install") /\ ~Got.success /\ pc' # pc) =>
              /\ logs' =
                   Append(logs, Literal("Warning: Dependency installation failed"))
              /\ pc' = "check3"
              /\ result' = result /\ exc' = exc
       /\ (Returned("pip_install") /\ ~Got.success /\ pc' # pc) =>
              /\ logs' = Append(logs,
                     Literal("Warning: Python dependency installation failed"))
              /\ pc' = "ready_log"
              /\ result' = result /\ exc' = exc]_vars

\* an attempt whose install failed has resolved its branch and succeeded
C22_Witness ==
    /\ ReturnedSuccess
    /\ InstallFailedIn(result.logs)
    /\ result.branchName # ""

IsProbe(c, file) == c.command = "test" /\ c.args = <<"-f", file>>
IsNpmInstall(c) == c.command = "npm" /\ c.args = <<"install">>
IsPipInstall(c) == c.command = "pip3" /\ c.args[1] = "install"
IsInstall(c) == IsNpmInstall(c) \/ IsPipInstall(c)

\* the install commands the attempt has run so far
Installs == SelectSeq(issued, IsInstall)

\* the probes are the first commands of the attempt, package.json first
ProbesInOrder ==
    \A j \in 1 .. Len(issued) :
        /\ IsProbe(issued[j], "package.json") <=> j = 1
        /\ IsProbe(issued[j], "requirements.txt") <=> j = 2

\* the attempt is past the dependency step: both probes have returned and
\* the install command, if one was chosen, has returned too
PastInstall ==
    pc \in {"check3", "ready_log", "check4"} \cup UntestedSites
            \cup {"git_revparse", "git_init", "branch"} \cup BranchSites

\* C23 as stated: the probes run package.json first, then requirements.txt;
\* at most one install command is run; past the dependency step npm install
\* has been run iff package.json was found, pip3 install iff package.json was
\* not found and requirements.txt was, and none when neither was found.
C23_InstallIffManifest ==
    /\ ProbesInOrder
    /\ Len(Installs) <= 1
    /\ PastInstall =>
          /\ (\E j \in 1 .. Len(Installs) : IsNpmInstall(Installs[j])) <=> pkgFound
          /\ (\E j \in 1 .. Len(Installs) : IsPipInstall(Installs[j]))
                <=> (~pkgFound /\ reqFound)

\* C23 amended: the probes run package.json first, then requirements.txt; at
\* most one install command is run; past the dependency step, when
\* installDependencies is not false, npm install has been run iff the
\* package.json probe succeeded and pip3 install iff the package.json probe
\* failed and the requirements.txt probe succeeded; when installDependencies
\* is false no install command has been run, whatever the probes found.
C23_InstallIffManifestAndWanted ==
    /\ ProbesInOrder
    /\ Len(Installs) <= 1
    /\ PastInstall =>
          IF InstallWanted
          THEN /\ (\E j \in 1 .. Len(Installs) : IsNpmInstall(Installs[j]))
                    <=> pkgFound
               /\ (\E j \in 1 .. Len(Installs) : IsPipInstall(Installs[j]))
                    <=> (~pkgFound /\ reqFound)
          ELSE Installs = <<>>

\* both manifests found, install wanted: npm install alone has been run
C23_Witness ==
    /\ pc = "ready_log"
    /\ InstallWanted
    /\ pkgFound /\ reqFound
    /\ Len(Installs) = 1 /\ IsNpmInstall(Installs[1])
    /\ Len(issued) = 3

\* C24: on every path through createSandbox, including the ones that end in
\* a cancellation or a failure, the percentages onProgress has been invoked
\* with so far never decrease from one invocation to the next.
C24_ProgressNondecreasing ==
    \A j \in 1 .. Len(progressed) - 1 : progressed[j] <= progressed[j + 1]

\* an attempt that reported at all four checkpoints
C24_Witness ==
    /\ progressed = <<20, 25, 30, 35>>
    /\ pc = "pip_install"

\* the credentials of the attempt: the source-control token and the agent API key
Credentials == {GithubToken, AnthropicApiKey}

\* a text carries a credential when one of its parts is the credential
CarriesCredential(text) == \E secret \in Credentials : Mentions(text, secret)

\* C25 as stated: no text handed to the logger contains an embedded credential
\* (the source-control token, the agent API key, or a repository URL holding
\* the token).
C25_NoCredentialLogged ==
    \A text \in logged : ~CarriesCredential(text)

\* what validateEnvironmentVariables says of the attempt's environment
EnvValidation == ValidateEnvironmentVariables(config.selectedAgent, config.env)

\* C26: when the environment validation fails, the attempt never gets past
\* the validation: daytona.create is never invoked, the validation step
\* raises the validation's error text, the attempt ends in success:false
\* and, when it ends by that error, the result's error is the validation
\* error; the validation is not run a second time.
C26_ValidationFailureStopsAttempt ==
    /\ [](~EnvValidation.valid =>
            /\ createCalls = 0
            /\ pc \in {"check1", "progress20", "validate", "catch_outer", "done"}
            /\ pc = "done" => ~result.success)
    /\ [][(pc = "validate" /\ ~EnvValidation.valid /\ pc' # pc) =>
              /\ pc' = "catch_outer"
              /\ exc' = Err(EnvValidation.error, {})]_vars
    /\ [][(pc = "catch_outer" /\ ~EnvValidation.valid /\ pc' # pc
            /\ exc = Err(EnvValidation.error, {})) =>
              /\ pc' = "done"
              /\ result' = [success |-> FALSE, error |-> EnvValidation.error,
                            logs |-> logs]]_vars

\* the attempt has returned the validation error without creating anything
C26_Witness ==
    /\ ReturnedFailure
    /\ ~EnvValidation.valid
    /\ result.error = "GITHUB_TOKEN is required for repository access"
    /\ createCalls = 0

\* daytona.create rejected the request for quota: the error in flight is the
\* one createWorkspace throws for a quota or limit rejection
QuotaRejected ==
    /\ "words" \in DOMAIN exc
    /\ exc.words = {"quota", "limit"}

\* C27: daytona.create is invoked at most once per createSandbox call; after
\* a quota rejection it is not invoked again, the attempt goes through the
\* catch blocks to a failure result, and the result's error names the
\* allocation that was attempted: its cpu, memory and disk after clamping.
C27_QuotaNotRetried ==
    /\ createCalls <= 1
    /\ QuotaRejected =>
          /\ createCalls = 1
          /\ pc \in {"catch_inner", "catch_outer", "done"}
          /\ pc = "done" =>
                /\ ReturnedFailure
                /\ result.error =
                     "Resource quota exceeded. Try reducing CPU, memory, or disk allocation."
                     \o " Current limits: CPU=" \o ToString(allocated.cpu)
                     \o ", Memory=" \o ToString(allocated.memory)
                     \o "GB, Disk=" \o ToString(allocated.disk) \o "GB"
                /\ allocated = ValidateAndOptimizeResources(requested)

\* the attempt has returned the quota failure after its single create
C27_Witness ==
    /\ QuotaRejected
    /\ ReturnedFailure
    /\ createCalls = 1
    /\ allocated = [cpu |-> 1, memory |-> 2, disk |-> 5]

\* daytona.create has returned a sandbox: the remote workspace exists
RemoteCreated == "id" \in DOMAIN sandbox

\* C28 as stated: whenever createSandbox returns success:false with an error
\* after the remote workspace was created (readiness timeout, Git
\* initialisation failure, branch failure), the returned logs contain an
\* entry recording that the workspace was created.
C28_FailureLogsCreation ==
    (ReturnedFailure /\ RemoteCreated) =>
        \E j \in 1 .. Len(result.logs) :
            result.logs[j] = Literal("Workspace created successfully")

\* the gateway failed in the last adapter call: its catch block caught an error
GatewayFailed == exc # NoResult

\* C29: the adapter reports gateway failures as values.  executeCommand, when
\* the gateway threw at its last attempt (the workspace is invalid or
\* unreachable), or when no attempt was made, has returned success:false
\* with a non-empty error; getWorkspace has returned null and
\* deleteWorkspace false whenever the gateway failed in them; and no call
\* ever leaves the caller with an exception.
C29_FailuresAreValues ==
    /\ pc = "caller"
    /\ ecPc \in {"idle", "loop", "sleep", "returned"}
    /\ (ExecReturned /\ (lastThrown # NoResult \/ delivered = 0)) =>
          /\ ~ecResult.success
          /\ ecResult.error # ""
    /\ (gwLast = "getWorkspace" /\ GatewayFailed) => result = Null
    /\ (gwLast = "getWorkspace" /\ ~GatewayFailed) => result.id = sandbox.id
    /\ (gwLast = "deleteWorkspace" /\ GatewayFailed) => result = Deleted(FALSE)
    /\ (gwLast = "deleteWorkspace" /\ ~GatewayFailed) => result = Deleted(TRUE)

\* an unknown workspace: the command has failed as a value at the first
\* attempt and the deletion after it has returned false
C29_Witness ==
    /\ ExecReturned
    /\ lastThrown = [isError |-> TRUE, message |-> "Sandbox not found"]
    /\ ecResult = [success |-> FALSE, error |-> "Sandbox not found", exitCode |-> 1]
    /\ gwLast = "deleteWorkspace"
    /\ exc = [isError |-> TRUE, message |-> "Sandbox not found"]
    /\ result = Deleted(FALSE)

\* every command an attempt has run targets the workspace its own create returned
OwnWorkspaceTargeted ==
    /\ \A j \in 1 .. Len(issued) :
          /\ "id" \in DOMAIN sandbox
          /\ issued[j].workspaceId = sandbox.id
    /\ \A target \in peer.targets :
          /\ "id" \in DOMAIN peer.workspace
          /\ target = peer.workspace.id

UrlProvided(ws) == Len(ws.url) > 0 /\ ws.url[1] # ""

InstallSteps ==
    {Literal("Dependencies installed successfully"),
     Literal("Python dependencies installed successfully")}

\* C32: end to end, for a request with a valid environment, no branch hints,
\* default resources and dependency install enabled, a manifest present and
\* a gateway on which every call succeeds, createSandbox returns, and what it
\* returns is success with a branch name of the form
\* agent/<timestamp>-<suffix> and logs that contain a dependency-install
\* entry.
C32_EndToEndSucceeds ==
    /\ <>(pc = "done")
    /\ [](pc = "done" =>
            /\ result.success
            /\ \E timestamp \in Timestamps, suffix \in Suffixes :
                  result.branchName = "agent/" \o timestamp \o "-" \o suffix
            /\ \E j \in 1 .. Len(result.logs) : result.logs[j] \in InstallSteps)

\* a Python project has gone through end to end
C32_Witness ==
    /\ ReturnedSuccess
    /\ ~pkgFound /\ reqFound
    /\ result.logs = <<Literal("Workspace created successfully"),
                       Literal("Python dependencies installed successfully"),
                       Literal("Python project ready")>>
    /\ result.branchName = "agent/2026-01-01T00-00-00-k3x9ab1"

\* the string the claim describes for a call: the command, with the
\* KEY="value" assignments of the env entries in front of it when there are
\* any, and with cd "<cwd>" && in front of that when a cwd is given
ComposedAsDescribed ==
    LET env == ecOptions.env
        assignments ==
            IF Len(env) = 2
            THEN env[1][1] \o "=\"" \o env[1][2] \o "\" "
                 \o env[2][1] \o "=\"" \o env[2][2] \o "\""
            ELSE env[1][1] \o "=\"" \o env[1][2] \o "\""
        inner == IF Len(env) = 0 THEN ecCmd ELSE assignments \o " " \o ecCmd
    IN  IF ecOptions.cwd \in {<<>>, <<"">>}
        THEN inner
        ELSE "cd \"" \o ecOptions.cwd[1] \o "\" && " \o inner

\* C33: every string executeCommand hands to the remote shell, on the first
\* attempt and on every retry, is the command with the inline KEY="value"
\* assignments of every env entry in front of it and then cd "<cwd>" && in
\* front of that when a (non-empty) cwd is given; with neither option it is
\* the command itself.
C33_ComposedCommandSent ==
    /\ \A j \in 1 .. Len(sent) : sent[j] = ComposedAsDescribed
    /\ (ecPc # "idle" /\ ecOptions.env = <<>> /\ ecOptions.cwd = <<>>) =>
          \A j \in 1 .. Len(sent) : sent[j] = ecCmd

\* a call with two env entries and a cwd has sent its string twice
C33_Witness ==
    /\ Len(sent) >= 2
    /\ Len(ecOptions.env) = 2
    /\ sent[2] = "cd \"/workspace\" && CUSTOM_VAR=\"custom-value\" NODE_ENV=\"test\" echo $CUSTOM_VAR"

IsGitConfig(c, key) ==
    c.command = "git" /\ Len(c.args) = 3 /\ c.args[1] = "config" /\ c.args[2] = key
IsGitInit(c) == c.command = "git" /\ c.args = <<"init">>
IsCheckout(c) == c.command = "git" /\ c.args[1] = "checkout"

\* every branch command comes after the user.name and the user.email command
IdentityBeforeBranch ==
    \A j \in 1 .. Len(issued) :
        IsCheckout(issued[j]) =>
            \E i \in 1 .. j - 1 :
                /\ IsGitConfig(issued[i], "user.name")
                /\ \E k \in i + 1 .. j - 1 : IsGitConfig(issued[k], "user.email")

\* the attempt is ending because git init failed
GitInitFailed ==
    /\ pc \in {"catch_outer", "done"}
    /\ "message" \in DOMAIN exc
    /\ exc.message = "Failed to initialize Git repository"

\* what one step of the Git bootstrap does
GitBootstrapStep ==
    \* the two identity commands are followed by the next command, whatever
    \* their result
    /\ (pc = "git_name" /\ pc' # pc) => pc' = "git_email"
    /\ (pc = "git_email" /\ pc' # pc) => pc' = "git_revparse"
    \* git init is the next command exactly when the detection failed, and is
    \* issued nowhere else
    /\ (pc = "git_revparse" /\ pc' # pc) =>
          /\ ecPc = "returned"
          /\ pc' = "git_init" <=> ~ecResult.success
    /\ (pc' = "git_init" /\ pc # "git_init") => pc = "git_revparse"
    /\ (Len(issued') > Len(issued) /\ IsGitInit(issued'[Len(issued')])) =>
          pc = "git_init"
    \* a failed git init ends the attempt
    /\ (pc = "git_init" /\ pc' # pc) =>
          /\ ecPc = "returned"
          /\ ~ecResult.success => pc' = "catch_outer"

\* C34: in the Git bootstrap the user.name and user.email commands are issued
\* before any branch command and the attempt goes on whatever their result;
\* git init is issued exactly when the repository-detection command failed;
\* and if git init fails the attempt ends with success false and no branch
\* command was issued.
C34_GitBootstrap ==
    /\ [](/\ IdentityBeforeBranch
          /\ GitInitFailed =>
                /\ \A j \in 1 .. Len(issued) : ~IsCheckout(issued[j])
                /\ pc = "done" => ~result.success)
    /\ [][GitBootstrapStep]_vars

\* git init was issued after a failed detection, failed, and the attempt has
\* returned
C34_Witness ==
    /\ GitInitFailed
    /\ ReturnedFailure
    /\ \E j \in 1 .. Len(issued) : IsGitInit(issued[j])

CloneSites == {"clone", "clone_checkout"}

\* what one step of createWorkspace does around the readiness wait
CreateWorkspaceStep ==
    \* the clone is run only once waitForWorkspaceReady has returned, and the
    \* checkout only after the clone
    /\ (gwLast' = "clone" /\ gwLast # "clone") =>
          /\ wait.at = "returned"
          /\ ProbeSucceeded(wait.last)
    /\ (gwLast' = "clone_checkout" /\ gwLast # "clone_checkout") =>
          gwLast = "clone"
    \* when the wait throws, the call throws: no clone, no workspace
    /\ (wait'.at = "threw" /\ wait.at # "threw") =>
          /\ pc' = "catch_inner"
          /\ "message" \in DOMAIN exc'
    \* whatever the clone and the checkout come to, createWorkspace returns
    \* the workspace
    /\ (pc \in CloneSites /\ pc' # pc) =>
          /\ pc' \in CloneSites \cup {"created"}
          /\ pc' = "created" =>
                /\ workspace'.status = "running"
                /\ workspace'.id = sandbox.id

\* C35: createWorkspace runs no git clone or checkout before
\* waitForWorkspaceReady has returned successfully; if the wait fails there is
\* no clone and the call throws; if the clone or the checkout fails after
\* readiness, the failure is swallowed and the workspace is returned with
\* status 'running'.
C35_CloneOnlyAfterReady ==
    /\ [](/\ pc \in CloneSites \cup {"created"} => gwLast # "create"
          /\ wait.at = "threw" =>
                /\ pc \notin CloneSites \cup {"created"}
                /\ gwLast = "ready"
                /\ workspace = NoResult
                /\ pc = "done" => ~result.success)
    /\ [][CreateWorkspaceStep]_vars

\* createWorkspace has returned the workspace after the checkout of a branch
C35_Witness ==
    /\ pc = "created"
    /\ gwLast = "clone_checkout"
    /\ workspace.status = "running"
    /\ workspace.branch # "main"

\* C36: executeCommand returns success true only if an attempt's command was
\* delivered and exited with code 0, and it returns at the first such
\* attempt: once an attempt has exited 0 the call has returned that result,
\* with no further attempt and no backoff sleep.
C36_SuccessIsFirstExitZero ==
    /\ [](/\ (ecPc = "returned" /\ ecResult.success) =>
               /\ delivered >= 1
               /\ "exit0" \in kinds
               /\ lastExit = 0
               /\ ecResult.exitCode = 0
          /\ "exit0" \in kinds =>
               /\ ecPc = "returned"
               /\ ecResult.success
               /\ Len(sleeps) = attempt - 1)
    /\ [][("exit0" \in kinds /\ ecPc' # "idle") =>
             /\ attempt' = attempt /\ sleeps' = sleeps /\ delivered' = delivered]_vars

\* the third attempt exited 0 after two attempts that did not
C36_Witness ==
    /\ ecPc = "returned"
    /\ ecResult.success
    /\ attempt = 3
    /\ Len(sleeps) = 2
    /\ kinds = {"transport", "nonzero", "exit0"}

\* the attempts a returned call has made: the loop body ran for
\* attempt = 1 .. attempt, or not at all when the loop condition failed at once
AttemptsMade == IF attempt <= maxRetries THEN attempt ELSE 0

\* C37: a call of executeCommand that has returned has made at least one and
\* at most maxRetries attempts, maxRetries being options.retries (3 when it is
\* absent or 0), for every value of the retries option and every pattern of
\* gateway failures and exit codes.
C37_OneToMaxRetriesAttempts ==
    ExecReturned =>
        /\ maxRetries = IF ecOptions.retries \in {<<>>, <<0>>}
                        THEN 3 ELSE ecOptions.retries[1]
        /\ AttemptsMade >= 1
        /\ AttemptsMade <= maxRetries
        /\ kinds # {}

\* the remote sandbox daytona.create returned to this attempt
SandboxCreated == "id" \in DOMAIN sandbox

\* C38: createSandbox never calls the gateway's delete, on any path: the last
\* gateway call is never deleteWorkspace, and a sandbox the attempt has
\* created is still there at every later step of the attempt and when it has
\* returned, be it with success, failure or cancellation.
C38_NoTeardown ==
    /\ [](gwLast # "deleteWorkspace")
    /\ [][SandboxCreated => (SandboxCreated' /\ sandbox'.id = sandbox.id)]_vars

\* the attempt failed at a command after the sandbox was created, and the
\* sandbox is left in place
C38_Witness ==
    /\ ReturnedFailure
    /\ SandboxCreated
    /\ gwLast = "git_init"

InstallDisabled == config.installDependencies = <<FALSE>>

\* the install of the attempt ran and succeeded
InstallSucceeded ==
    \E j \in 1 .. Len(logs) : logs[j] \in InstallSteps

IsNotInstall(c) == ~IsInstall(c)
IsNotInstallStep(entry) == entry \notin InstallSteps

\* the commands of a whole attempt, the install aside: the two probes, the Git
\* identity, the repository detection (and git init after a failed one), the
\* three debugging commands, the credential commands, the branch command
SetupCommands(initialised) ==
    <<FullCommand("test", <<"-f", "package.json">>),
      FullCommand("test", <<"-f", "requirements.txt">>),
      "git config user.name Coding Agent",
      "git config user.email agent@example.com",
      "git rev-parse --git-dir">>
    \o (IF initialised THEN <<"git init">> ELSE <<>>)
    \o <<"git status --porcelain", "git branch -a", "git remote -v">>
    \o (IF "GITHUB_TOKEN" \in config.env
        THEN <<"git config credential.helper store",
               "sh -c echo \"https://" \o GithubToken
                   \o ":x-oauth-basic@github.com\" > ~/.git-credentials">>
        ELSE <<>>)
    \o <<IF config.existingBranchName # ""
         THEN "git checkout " \o config.existingBranchName
         ELSE IF config.preDeterminedBranchName # ""
              THEN "git checkout -b " \o config.preDeterminedBranchName
              ELSE "git checkout -b " \o result.branchName>>

\* the commands the attempt has issued, as the strings sent
IssuedCommands(keep(_)) ==
    LET kept == SelectSeq(issued, keep)
    IN  [j \in 1 .. Len(kept) |-> FullCommand(kept[j].command, kept[j].args)]

\* C39: when installDependencies is false no install command is issued,
\* whatever the manifest probes found, and the attempt goes on through the Git
\* configuration and the branch resolution: an attempt that succeeds without
\* the install and one that succeeds after a successful install have issued
\* the same commands, the install aside, and return the same result, the
\* install entry of the logs aside.
C39_NoInstallSameOutcome ==
    /\ InstallDisabled => Installs = <<>>
    /\ (ReturnedSuccess /\ (InstallDisabled \/ InstallSucceeded)) =>
          /\ \E initialised \in BOOLEAN :
                IssuedCommands(IsNotInstall) = SetupCommands(initialised)
          /\ SelectSeq(result.logs, IsNotInstallStep) =
                <<Literal("Workspace created successfully"),
                  IF pkgFound THEN Literal("Node.js project ready")
                  ELSE IF reqFound THEN Literal("Python project ready")
                  ELSE Literal("Workspace ready for development")>>
          /\ result.workspace = workspace
          /\ result.domain = "workspace-" \o workspace.id \o ".daytona.dev"
          /\ result.branchName =
                IF config.existingBranchName # "" THEN config.existingBranchName
                ELSE IF config.preDeterminedBranchName # ""
                     THEN config.preDeterminedBranchName
                     ELSE branchName

\* both manifests are there, the install is disabled, and the attempt has
\* succeeded without an install command
C39_Witness ==
    /\ ReturnedSuccess
    /\ InstallDisabled
    /\ pkgFound /\ reqFound
    /\ Installs = <<>>
    /\ Len(issued) >= 10

\* C40: the configuration createDaytonaConfiguration returns has timeout
\* 60 * N for a timeout option 'Nm' and 300 when no timeout is given, has
\* resources.cpu equal to the requested vcpus capped at 4 and never below 1,
\* and has memory 2 and disk 5.
C40_TimeoutAndCpuBounded ==
    pc = "configured" =>
        /\ requested.timeout = <<>> => allocated.timeout = <<300>>
        /\ \A n \in 0 .. MaxMinutes :
              requested.timeout = <<MinutesText(n)>> => allocated.timeout = <<60 * n>>
        /\ \A n \in -1 .. MaxResource :
              requested.resources = <<[vcpus |-> <<n>>]>> =>
                  allocated.resources.cpu =
                      IF n > 4 THEN 4 ELSE IF n < 1 THEN 1 ELSE n
        /\ allocated.resources.cpu >= 1
        /\ allocated.resources.cpu <= 4
        /\ allocated.resources.memory = 2
        /\ allocated.resources.disk = 5

====
